---------------------------- MODULE Spec2Model ----------------------------
(***************************************************************************)
(* Model of the governance proposal mirror: status derivation              *)
(* (reality.js), claim eligibility (claim.js, bundled in app.js), the      *)
(* chunked log scanner and the polling session (indexer.js, app.js).       *)
(*                                                                         *)
(* Encodings.  A bytes32 value is a short string ("0x00", "0x01", ...).    *)
(* A decimal string such as the `bond` field is the sequence of its        *)
(* decimal digits (<<1, 0>> is "10"); toString and BigInt convert.  An     *)
(* account address is a pair <<account, spelling>>: spelling 0 is the      *)
(* all-lower-case spelling, 1 the checksummed (mixed case) one.  JS null   *)
(* is the record Null (for an object) or the string "null" (for a value).  *)
(***************************************************************************)
EXTENDS Integers, Sequences, FiniteSets, Bags

VARIABLES
    pc,              \* "ready" before the function under study is called, then "done"
    questionState,   \* computeProposalStatus / computeClaimableAnswers argument
    moduleConfig,    \* computeProposalStatus argument (app.js moduleConfig)
    now,             \* Math.floor(Date.now() / 1000)
    status,          \* last value returned by computeProposalStatus
    answerHistory,   \* chronological answer history (getFullAnswerHistory)
    userAddress,     \* computeClaimableAnswers argument
    claimable,       \* last value returned by computeClaimableAnswers
    totalClaimable,  \* last value returned by estimateClaimableAmount
    claimArrays,     \* last value returned by buildClaimArrays
    tasks,           \* the asynchronous calls in progress: a bag of call frames
    chainHead,       \* the chain's latest block number
    provider,        \* app.js provider: "null" or "rpc"
    pollTimer,       \* indexer.js _pollTimer is armed
    rpcFailureHandler,     \* indexer.js _rpcFailureHandler is registered
    rpcFailoverInProgress, \* app.js rpcFailoverInProgress
    settings,        \* db.js settings table: the persisted watermark
    proposals,       \* db.js proposals store: createdBlock of each stored record
                     \* (the whole records under SpecIndex)
    answers,         \* db.js answers store: <<blockNumber, logIndex>> of each record
                     \* (the whole records under SpecIndex)
    allProposals,    \* app.js allProposals, the in-memory mirror of the store
    questionStates,  \* app.js questionStates (and the questions_state store)
    retry,           \* indexer.js withRetry: the frame of the call under study
    chain,           \* the chain's block timestamps and the provider's gaps
    estimate,        \* indexer.js estimateBlockFromTime: the frame of the call
    bundle,          \* verifyTxBundle argument: the imported transaction bundle
    proposalTxHashes,  \* verifyTxBundle argument: proposal.txHashes
    verified,        \* app.js verified: last value returned by verifyTxBundle
    intervals,       \* the browser's interval timers (SpecPolling)
    realitio,        \* the Reality.eth contract: the question of each questionId
    questions_state, \* db.js questions_state store: the record of each questionId
    endpoints,       \* app.js currentRpcUrl, currentFallbackUrl and the saved RPC settings
    execution        \* the rendered bundle preview, the wallet and the calls of executeProposalTx

statusVars == <<questionState, moduleConfig, now, status>>
claimVars == <<answerHistory, userAddress, claimable, totalClaimable, claimArrays>>
storeVars == <<settings, proposals, answers, allProposals>>
sessionVars == <<tasks, chainHead, provider, pollTimer, rpcFailureHandler,
                 rpcFailoverInProgress, storeVars, questionStates>>
\* The frames of the single calls studied on their own.
\* The on-chain questions and their stored records (SpecQuestion).
detailVars == <<realitio, questions_state, endpoints, execution>>
callVars == <<retry, chain, estimate, bundle, proposalTxHashes, verified, intervals,
              detailVars>>
vars == <<pc, statusVars, claimVars, sessionVars, callVars>>

-----------------------------------------------------------------------------
(* Bounds of the model *)

MaxBond == 2          \* bonds and minimum bonds range over 0..MaxBond
MaxTs == 2            \* finalizeTs ranges over 0..MaxTs
MaxNow == 3           \* the clock ranges over 0..MaxNow
MaxCooldown == 1      \* questionCooldown ranges over 0..MaxCooldown
MaxExpiration == 1    \* answerExpiration ranges over 0..MaxExpiration
MaxHistory == 2       \* an answer history holds at most MaxHistory entries
MaxChunks == 2        \* scanned block numbers lie around 0..MaxChunks chunk boundaries
MaxTasks == 2         \* asynchronous calls in progress at the same time
MaxHeadSteps == 1     \* the chain head advances at most MaxHeadSteps times

-----------------------------------------------------------------------------
(* Values *)

Null == [null |-> TRUE]
NullValue == "null"
NotCalled == [called |-> FALSE]
NoAddress == <<"", 0>>      \* a null or empty address
\* String.prototype.toLowerCase on a spelled name (an address, an id).
toLowerCase(addr) == <<addr[1], 0>>

ZeroHash == "0x00"
ANSWER_YES == "0x01"
ANSWER_NO == "0x00"
ANSWER_INVALID == "0xff"
Answers == {ANSWER_NO, ANSWER_YES, ANSWER_INVALID}

RECURSIVE toString(_)
toString(n) == IF n < 10 THEN <<n>> ELSE Append(toString(n \div 10), n % 10)

RECURSIVE BigInt(_)
BigInt(s) ==
    IF Len(s) = 0 THEN 0
    ELSE 10 * BigInt(SubSeq(s, 1, Len(s) - 1)) + s[Len(s)]

BondStrings == {toString(n) : n \in 0..MaxBond}

QuestionStates ==
    { q \in [bestAnswer : Answers,
             bond : BondStrings,
             finalizeTs : 0..MaxTs,
             isFinalized : BOOLEAN,
             finalAnswer : Answers \cup {NullValue},
             isPendingArbitration : BOOLEAN] :
        q.finalAnswer # NullValue => q.isFinalized }

ModuleConfigs ==
    [questionCooldown : 0..MaxCooldown,
     answerExpiration : 0..MaxExpiration,
     minimumBond : BondStrings]

-----------------------------------------------------------------------------
(* indexer.js: the chain as the provider shows it, and getLogsChunked *)

LOG_CHUNK_SIZE == 5000

Min(a, b) == IF a < b THEN a ELSE b
Max(a, b) == IF a > b THEN a ELSE b

\* Block numbers around the chunk boundaries.
ScanBlocks ==
    {b \in {k * LOG_CHUNK_SIZE + d : k \in 0..MaxChunks, d \in {-1, 0, 1}} : b >= 0}

\* The chain head starts at block BlockStep and moves in steps of BlockStep
\* blocks (a bound of the model, below one chunk).
BlockStep == 2000
SessionBlocks == {k * BlockStep : k \in 1..(MaxHeadSteps + 1)}

\* The blocks that hold logs (one proposal-creation log and two answer logs
\* each): the two blocks at every chunk boundary, and the session's heads.
\* A question is named by the block that created it; the first answer log of
\* a block answers the question created there, the second one the oldest
\* question.
LogBlocks ==
    {k * LOG_CHUNK_SIZE + d : k \in 1..MaxChunks, d \in {-1, 0}} \cup SessionBlocks
FirstLogBlock == CHOOSE b \in LogBlocks : \A c \in LogBlocks : b <= c
BlockLogs(b, filter) ==
    IF filter = "ProposalQuestionCreated"
    THEN << [blockNumber |-> b, logIndex |-> 0, transactionIndex |-> 0,
             topic |-> filter, questionId |-> b] >>
    ELSE << [blockNumber |-> b, logIndex |-> 1, transactionIndex |-> 0,
             topic |-> filter, questionId |-> b],
            [blockNumber |-> b, logIndex |-> 2, transactionIndex |-> 1,
             topic |-> filter, questionId |-> FirstLogBlock] >>

RECURSIVE SortedSeq(_)
SortedSeq(S) ==
    IF S = {} THEN <<>>
    ELSE LET m == CHOOSE x \in S : \A y \in S : x <= y
         IN  <<m>> \o SortedSeq(S \ {m})

RECURSIVE Flatten(_)
Flatten(ss) == IF Len(ss) = 0 THEN <<>> ELSE Head(ss) \o Flatten(Tail(ss))

\* provider.getLogs({...filter, fromBlock, toBlock}): the matching logs of the
\* blocks fromBlock..toBlock, in block and log-index order.
getLogs(filter, fromBlock, toBlock) ==
    LET blocks == SortedSeq({b \in LogBlocks : fromBlock <= b /\ b <= toBlock})
    IN  Flatten([i \in 1..Len(blocks) |-> BlockLogs(blocks[i], filter)])

\* The createdBlock of the proposals decoded from a list of creation logs.
ProposalKeys(logs) == {logs[i].blockNumber : i \in 1..Len(logs)}
\* The <<blockNumber, logIndex>> of the answers parsed from a list of answer logs.
AnswerKeys(logs) == {<<logs[i].blockNumber, logs[i].logIndex>> : i \in 1..Len(logs)}

\* A call in progress.  kind: who started it; pc: where it stands; flow: the
\* range sync it is in; the getLogsChunked locals; the range of the sync; the
\* proposals the scan found; the setting last read; queue: the proposals whose
\* state is still to be loaded, the first one being requested; updates: a
\* refreshed state differed from the cached one; failover: it is the
\* connectRPC that a running handleRpcFailure awaits; preWipe: the range of
\* its sync comes from a lastProcessedBlock read before a cache wipe.
NewTask(kind, start) ==
    [kind |-> kind, pc |-> start, flow |-> "none", filter |-> "none",
     fromBlock |-> 0, toBlock |-> 0, current |-> 0, end |-> 0,
     allLogs |-> <<>>, ranges |-> <<>>, reports |-> <<>>,
     syncFrom |-> 0, syncTo |-> 0, newProposals |-> {}, read |-> 0,
     queue |-> <<>>, updates |-> FALSE, failover |-> FALSE, preWipe |-> FALSE]

Running == BagToSet(tasks)
Spawn(ts, k) == ts (+) SetToBag({k})
Replace(ts, k, k2) == (ts (-) SetToBag({k})) (+) SetToBag({k2})

\* getSetting returns null for a key never set; -1 stands for that null.
UnsetBlock == -1
\* Number(value || 0)
NumberOrZero(v) == IF v = UnsetBlock THEN 0 ELSE v

NoSettings ==
    [lastProcessedBlock |-> UnsetBlock, earliestIndexedBlock |-> UnsetBlock,
     answerCacheReady |-> FALSE]

\* No call is under study.
NoRetry == [pc |-> "none"]
NoEstimate == [pc |-> "none"]
NoChain == [genesis |-> 0, interval |-> 0, gapAt |-> 0, gap |-> 0, sparse |-> FALSE]
NoVerify ==
    /\ bundle = [txHashes |-> <<>>]
    /\ proposalTxHashes = <<>>
    /\ verified = NotCalled
NoIntervals == [live |-> {}, created |-> 0]
NoEndpoints ==
    [currentRpcUrl |-> "", currentFallbackUrl |-> "", rpcUrl |-> "", rpcFallback |-> ""]
NoExecution ==
    [warning |-> FALSE, buttons |-> {}, enabled |-> FALSE, isConnected |-> FALSE,
     submitted |-> {}]
NoDetail ==
    /\ realitio = <<>>
    /\ questions_state = <<>>
    /\ endpoints = NoEndpoints
    /\ execution = NoExecution
NoCalls ==
    /\ intervals = NoIntervals
    /\ NoDetail
    /\ retry = NoRetry
    /\ chain = NoChain
    /\ estimate = NoEstimate
    /\ NoVerify

NoSession ==
    /\ tasks = EmptyBag
    /\ chainHead = 0
    /\ provider = "null"
    /\ pollTimer = FALSE
    /\ rpcFailureHandler = FALSE
    /\ rpcFailoverInProgress = FALSE
    /\ settings = NoSettings
    /\ proposals = {}
    /\ answers = {}
    /\ allProposals = {}
    /\ questionStates = <<>>
    /\ NoCalls

\* const end = Math.min(current + LOG_CHUNK_SIZE, toBlock): one block too many.
chunkEnd_offByOne(current, toBlock) == Min(current + LOG_CHUNK_SIZE, toBlock)

\* const end = Math.min(current + LOG_CHUNK_SIZE - 1, toBlock)
chunkEnd(current, toBlock) == Min(current + LOG_CHUNK_SIZE - 1, toBlock)

\* getLogsChunked entered with (filter, fromBlock, toBlock): an empty range
\* returns at once, otherwise the loop starts at fromBlock.
enterGetLogsChunked(task, filter, fromBlock, toBlock) ==
    [task EXCEPT !.filter = filter, !.fromBlock = fromBlock, !.toBlock = toBlock,
                 !.current = fromBlock, !.end = 0, !.allLogs = <<>>,
                 !.ranges = <<>>, !.reports = <<>>,
                 !.pc = IF toBlock < fromBlock THEN "scan_returned" ELSE "scan_loop"]

\* The locals of getLogsChunked are gone once its caller has used the result.
leaveGetLogsChunked(task) ==
    [task EXCEPT !.filter = "none", !.fromBlock = 0, !.toBlock = 0,
                 !.current = 0, !.end = 0, !.allLogs = <<>>, !.ranges = <<>>,
                 !.reports = <<>>]

\* Loop head with current <= toBlock: the sub-range [current, end] is requested.
ScanIssue(k) ==
    /\ k.pc = "scan_loop"
    /\ k.current <= k.toBlock
    /\ LET end == chunkEnd(k.current, k.toBlock)
       IN  tasks' = Replace(tasks, k,
                       [k EXCEPT !.end = end,
                                 !.ranges = Append(@, <<k.current, end>>),
                                 !.pc = "scan_await"])
    /\ UNCHANGED <<pc, statusVars, claimVars, callVars, questionStates, chainHead, provider, pollTimer,
                   rpcFailureHandler, rpcFailoverInProgress, storeVars>>

\* Math.round(num / den * 100) for num >= 0 and den > 0: the nearest integer,
\* a half rounded upwards.
roundPercent(num, den) == (200 * num + den) \div (2 * den)

\* scanned counting the blocks of the last sub-range only.
scanned_lastChunk(k) == k.end - k.current + 1

\* The blocks scanned once the sub-range ending at k.end is fetched.
scanned(k) == k.end - k.fromBlock + 1

\* The percentage getLogsChunked reports after the sub-range ending at k.end.
progressPct(k) ==
    LET totalSpan == Max(1, k.toBlock - k.fromBlock + 1)
    IN  Min(100, roundPercent(scanned(k), totalSpan))

\* The request resolves: its logs are appended, the loop moves past end and
\* onProgress(pct, allLogs.length) is called; reports keeps the calls.
ScanReceive(k) ==
    /\ k.pc = "scan_await"
    /\ LET allLogs == k.allLogs \o getLogs(k.filter, k.current, k.end)
       IN  tasks' = Replace(tasks, k,
                       [k EXCEPT !.allLogs = allLogs,
                                 !.current = k.end + 1,
                                 !.reports = Append(@, <<progressPct(k), Len(allLogs)>>),
                                 !.pc = "scan_loop"])
    /\ UNCHANGED <<pc, statusVars, claimVars, callVars, questionStates, chainHead, provider, pollTimer,
                   rpcFailureHandler, rpcFailoverInProgress, storeVars>>

\* Loop head with current > toBlock: allLogs is returned.
ScanReturn(k) ==
    /\ k.pc = "scan_loop"
    /\ k.current > k.toBlock
    /\ tasks' = Replace(tasks, k, [k EXCEPT !.pc = "scan_returned"])
    /\ UNCHANGED <<pc, statusVars, claimVars, callVars, questionStates, chainHead, provider, pollTimer,
                   rpcFailureHandler, rpcFailoverInProgress, storeVars>>

\* ScanThrow returning the logs fetched so far instead of throwing.
ScanThrow_keepPartial(k) ==
    /\ k.pc = "scan_await"
    /\ ~rpcFailureHandler
    /\ tasks' = Replace(tasks, k, [k EXCEPT !.pc = "scan_returned"])
    /\ UNCHANGED <<pc, statusVars, claimVars, callVars, questionStates, chainHead, provider, pollTimer,
                   rpcFailureHandler, rpcFailoverInProgress, storeVars>>

\* withRetry gives up on the request with no failure handler registered: the
\* error is thrown out of getLogsChunked and allLogs is lost.
ScanThrow(k) ==
    /\ k.pc = "scan_await"
    /\ ~rpcFailureHandler
    /\ tasks' = Replace(tasks, k, [k EXCEPT !.pc = "scan_threw", !.allLogs = <<>>])
    /\ UNCHANGED <<pc, statusVars, claimVars, callVars, questionStates, chainHead, provider, pollTimer,
                   rpcFailureHandler, rpcFailoverInProgress, storeVars>>

\* A direct call getLogsChunked(provider, filter, fromBlock, toBlock).
InitScan ==
    /\ pc = "ready"
    /\ questionState = Null
    /\ moduleConfig = Null
    /\ now = 0
    /\ status = NotCalled
    /\ answerHistory = <<>>
    /\ userAddress = NoAddress
    /\ claimable = <<>>
    /\ totalClaimable = 0
    /\ claimArrays = NotCalled
    /\ \E filter \in {"ProposalQuestionCreated", "LogNewAnswer"},
          fromBlock \in ScanBlocks, toBlock \in ScanBlocks :
          tasks = SetToBag({enterGetLogsChunked(NewTask("scan", "call"),
                                                filter, fromBlock, toBlock)})
    /\ chainHead = MaxChunks * LOG_CHUNK_SIZE + 1
    /\ provider = "rpc"
    /\ pollTimer = FALSE
    /\ rpcFailureHandler = FALSE
    /\ rpcFailoverInProgress = FALSE
    /\ settings = NoSettings
    /\ proposals = {}
    /\ answers = {}
    /\ allProposals = {}
    /\ questionStates = <<>>
    /\ NoCalls

NextScan ==
    \/ \E k \in Running : ScanIssue(k)
    \/ \E k \in Running : ScanReceive(k)
    \/ \E k \in Running : ScanReturn(k)
    \/ \E k \in Running : ScanThrow(k)

SpecScan == InitScan /\ [][NextScan]_vars

-----------------------------------------------------------------------------
(* app.js / indexer.js: the session.  Every asynchronous call in progress    *)
(* (a connectRPC, a refresh click, a polling tick) is a task; a task takes   *)
(* one step per await that matters here, and the steps of different tasks    *)
(* interleave as the event loop allows.                                      *)

CanSpawn == BagCardinality(tasks) < MaxTasks

\* estimateBlockFromTime gives a block between 0 and the head.
EstimatedBlocks == {b \in {0, BlockStep} : b <= chainHead}

\* scanProposalsInRange / indexAnswersInRange entered on [fromBlock, toBlock]
\* as part of the given flow.
enterRangeScan(task, flow, filter, fromBlock, toBlock) ==
    enterGetLogsChunked(
        [task EXCEPT !.flow = flow, !.syncFrom = fromBlock, !.syncTo = toBlock],
        filter, fromBlock, toBlock)

\* Where a task goes when the flow it is in returns normally.
afterFlow(task) ==
    IF task.flow = "backfill" THEN "backfill_done"
    ELSE IF task.flow = "expand" THEN "expand_done"
    ELSE IF task.flow = "ensure" THEN "ensure_done"
    ELSE "fnp_done"

\* The locals of a range sync are gone when it returns.
leaveFlow(task, nextPc) ==
    [task EXCEPT !.pc = nextPc, !.flow = "none", !.syncFrom = 0, !.syncTo = 0,
                 !.newProposals = {}, !.read = 0, !.queue = <<>>,
                 !.updates = FALSE, !.preWipe = FALSE]

\* A task ends; the handleRpcFailure awaiting it, if any, resumes.
endTask(ts, k) ==
    LET rest == ts (-) SetToBag({k})
        waiting == {w \in BagToSet(rest) : w.pc = "failover_wait"}
    IN  IF k.failover /\ waiting # {}
        THEN LET w == CHOOSE x \in waiting : TRUE
             IN  Replace(rest, w, [w EXCEPT !.pc = "failover_return"])
        ELSE rest

\* init() or doSaveSettings: stopPolling(), then connectRPC starts.
ConnectStart ==
    /\ CanSpawn
    /\ pollTimer' = FALSE
    /\ provider' = "rpc"
    /\ rpcFailureHandler' = TRUE
    /\ tasks' = Spawn(tasks, NewTask("connect", "connect_handshake"))
    /\ UNCHANGED <<pc, statusVars, claimVars, callVars, questionStates, chainHead, rpcFailoverInProgress,
                   storeVars>>

\* connectRPC: getNetwork, getCode, loadModuleConfig and loadCachedData went
\* through; the watermark decides between backfill and sync.
ConnectHandshakeOk(k) ==
    /\ k.pc = "connect_handshake"
    /\ allProposals' = proposals
    /\ tasks' = Replace(tasks, k,
                    [k EXCEPT !.pc =
                        IF NumberOrZero(settings.lastProcessedBlock) = 0
                        THEN "backfill_start" ELSE "expand_start"])
    /\ UNCHANGED <<pc, statusVars, claimVars, callVars, questionStates, chainHead, provider, pollTimer,
                   rpcFailureHandler, rpcFailoverInProgress, settings, proposals,
                   answers>>

\* connectRPC: one of them threw; the catch block clears the provider.
ConnectHandshakeFail(k) ==
    /\ k.pc = "connect_handshake"
    /\ provider' = "null"
    /\ tasks' = endTask(tasks, k)
    /\ UNCHANGED <<pc, statusVars, claimVars, callVars, questionStates, chainHead, pollTimer,
                   rpcFailureHandler, rpcFailoverInProgress, storeVars>>

\* runBackfill -> backfillProposals -> backfillProposalsRange.
BackfillStart(k) ==
    /\ k.pc = "backfill_start"
    /\ IF provider = "null"
       THEN tasks' = Replace(tasks, k, [k EXCEPT !.pc = "connect_startPolling"])
       ELSE \E fromBlock \in EstimatedBlocks :
              tasks' = Replace(tasks, k,
                          IF chainHead < fromBlock
                          THEN [k EXCEPT !.pc = "backfill_done"]
                          ELSE enterRangeScan(k, "backfill", "ProposalQuestionCreated",
                                              fromBlock, chainHead))
    /\ UNCHANGED <<pc, statusVars, claimVars, callVars, questionStates, chainHead, provider, pollTimer,
                   rpcFailureHandler, rpcFailoverInProgress, storeVars>>

\* scanProposalsInRange after its getLogsChunked: every log is decoded and
\* stored; then indexAnswersInRange starts on the same range.
ProposalsScanned(k) ==
    /\ k.pc = "scan_returned"
    /\ k.filter = "ProposalQuestionCreated"
    /\ proposals' = proposals \cup {k.allLogs[i].blockNumber : i \in 1..Len(k.allLogs)}
    /\ tasks' = Replace(tasks, k,
                    enterGetLogsChunked(
                        [k EXCEPT !.newProposals =
                            {k.allLogs[i].questionId : i \in 1..Len(k.allLogs)}],
                                        "LogNewAnswer", k.syncFrom, k.syncTo))
    /\ UNCHANGED <<pc, statusVars, claimVars, callVars, questionStates, chainHead, provider, pollTimer,
                   rpcFailureHandler, rpcFailoverInProgress, settings, answers,
                   allProposals>>

\* indexAnswersInRange after its getLogsChunked: every log is parsed and stored.
AnswersScanned(k) ==
    /\ k.pc = "scan_returned"
    /\ k.filter = "LogNewAnswer"
    /\ answers' = answers \cup
                    {<<k.allLogs[i].blockNumber, k.allLogs[i].logIndex>> :
                        i \in 1..Len(k.allLogs)}
    /\ tasks' = Replace(tasks, k,
                    [leaveGetLogsChunked(k) EXCEPT !.pc =
                        IF k.flow = "ensure" THEN "ensure_done"
                        ELSE "uirs_readEarliest"])
    /\ UNCHANGED <<pc, statusVars, claimVars, callVars, questionStates, chainHead, provider, pollTimer,
                   rpcFailureHandler, rpcFailoverInProgress, settings, proposals,
                   allProposals>>

\* updateIndexedRangeSettings: await getSetting("earliestIndexedBlock")
ReadEarliest(k) ==
    /\ k.pc = "uirs_readEarliest"
    /\ tasks' = Replace(tasks, k,
                    [k EXCEPT !.read = settings.earliestIndexedBlock,
                              !.pc = "uirs_writeEarliest"])
    /\ UNCHANGED <<pc, statusVars, claimVars, callVars, questionStates, chainHead, provider, pollTimer,
                   rpcFailureHandler, rpcFailoverInProgress, storeVars>>

\* updateIndexedRangeSettings: await setSetting("earliestIndexedBlock", ...)
WriteEarliest(k) ==
    /\ k.pc = "uirs_writeEarliest"
    /\ settings' = [settings EXCEPT !.earliestIndexedBlock =
                      IF k.read = UnsetBlock THEN k.syncFrom
                      ELSE Min(k.read, k.syncFrom)]
    /\ tasks' = Replace(tasks, k, [k EXCEPT !.read = 0, !.pc = "uirs_readLast"])
    /\ UNCHANGED <<pc, statusVars, claimVars, callVars, questionStates, chainHead, provider, pollTimer,
                   rpcFailureHandler, rpcFailoverInProgress, proposals, answers,
                   allProposals>>

\* updateIndexedRangeSettings: await getSetting("lastProcessedBlock")
ReadLast(k) ==
    /\ k.pc = "uirs_readLast"
    /\ tasks' = Replace(tasks, k,
                    [k EXCEPT !.read = NumberOrZero(settings.lastProcessedBlock),
                              !.pc = "uirs_writeLast"])
    /\ UNCHANGED <<pc, statusVars, claimVars, callVars, questionStates, chainHead, provider, pollTimer,
                   rpcFailureHandler, rpcFailoverInProgress, storeVars>>

\* WriteLast storing the end of the scanned range instead of the maximum.
WriteLast_toBlock(k) ==
    /\ k.pc = "uirs_writeLast"
    /\ settings' = [settings EXCEPT !.lastProcessedBlock = k.syncTo]
    /\ tasks' = Replace(tasks, k,
                    [k EXCEPT !.read = 0, !.syncFrom = 0, !.syncTo = 0,
                              !.pc = afterFlow(k)])
    /\ UNCHANGED <<pc, statusVars, claimVars, callVars, questionStates, chainHead, provider, pollTimer,
                   rpcFailureHandler, rpcFailoverInProgress, proposals, answers,
                   allProposals>>

\* updateIndexedRangeSettings: await setSetting("lastProcessedBlock", ...)
WriteLast(k) ==
    /\ k.pc = "uirs_writeLast"
    /\ settings' = [settings EXCEPT !.lastProcessedBlock = Max(k.read, k.syncTo)]
    /\ tasks' = Replace(tasks, k,
                    [k EXCEPT !.read = 0, !.syncFrom = 0, !.syncTo = 0,
                              !.pc = afterFlow(k)])
    /\ UNCHANGED <<pc, statusVars, claimVars, callVars, questionStates, chainHead, provider, pollTimer,
                   rpcFailureHandler, rpcFailoverInProgress, proposals, answers,
                   allProposals>>

\* runBackfill after backfillProposals: the states are loaded, the answer cache
\* is marked ready and the cache is reloaded.
BackfillDone(k) ==
    /\ k.pc = "backfill_done"
    /\ settings' = [settings EXCEPT !.answerCacheReady = TRUE]
    /\ allProposals' = proposals
    /\ tasks' = Replace(tasks, k, leaveFlow(k, "connect_startPolling"))
    /\ UNCHANGED <<pc, statusVars, claimVars, callVars, questionStates, chainHead, provider, pollTimer,
                   rpcFailureHandler, rpcFailoverInProgress, proposals, answers>>

\* The smallest createdBlock of the mirror, as the reduce over allProposals
\* computes it (a createdBlock of 0 counts as unknown); UnsetBlock if none.
minCreatedBlock ==
    LET known == {b \in allProposals : b # 0}
    IN  IF known = {} THEN UnsetBlock
        ELSE CHOOSE b \in known : \A c \in known : b <= c

\* Where connectRPC or the refresh handler goes after maybeExpandBackfillCoverage.
afterExpand(task) == IF task.kind = "connect" THEN "ensure_start" ELSE "fnp_start"

\* maybeExpandBackfillCoverage up to its backfillProposalsRange call.
ExpandStart(k) ==
    /\ k.pc = "expand_start"
    /\ IF provider = "null"
       THEN /\ tasks' = Replace(tasks, k, [k EXCEPT !.pc = afterExpand(k)])
            /\ UNCHANGED settings
       ELSE \E desiredStart \in EstimatedBlocks :
              LET recovered == settings.earliestIndexedBlock = UnsetBlock
                                 /\ minCreatedBlock # UnsetBlock
                  earliestIndexed == IF recovered THEN minCreatedBlock
                                     ELSE settings.earliestIndexedBlock
                  earliest == NumberOrZero(earliestIndexed)
              IN  /\ settings' = IF recovered
                                 THEN [settings EXCEPT !.earliestIndexedBlock =
                                                          minCreatedBlock]
                                 ELSE settings
                  /\ tasks' = Replace(tasks, k,
                        IF desiredStart >= earliest \/ earliest - 1 < desiredStart
                        THEN [k EXCEPT !.pc = afterExpand(k)]
                        ELSE enterRangeScan(k, "expand", "ProposalQuestionCreated",
                                            desiredStart, earliest - 1))
    /\ UNCHANGED <<pc, statusVars, claimVars, callVars, questionStates, chainHead, provider, pollTimer,
                   rpcFailureHandler, rpcFailoverInProgress, proposals, answers,
                   allProposals>>

\* maybeExpandBackfillCoverage after backfillProposalsRange: the cache is
\* reloaded when older proposals were found.
ExpandDone(k) ==
    /\ k.pc = "expand_done"
    /\ allProposals' = IF k.newProposals # {} THEN proposals ELSE allProposals
    /\ tasks' = Replace(tasks, k, leaveFlow(k, afterExpand(k)))
    /\ UNCHANGED <<pc, statusVars, claimVars, callVars, questionStates, chainHead, provider, pollTimer,
                   rpcFailureHandler, rpcFailoverInProgress, settings, proposals,
                   answers>>

\* ensureAnswerCacheCoverage up to its backfillAnswerHistory call.
EnsureStart(k) ==
    /\ k.pc = "ensure_start"
    /\ LET lastBlock == NumberOrZero(settings.lastProcessedBlock)
           recovered == settings.earliestIndexedBlock = UnsetBlock
                          /\ minCreatedBlock # UnsetBlock
           earliestIndexed == IF recovered THEN minCreatedBlock
                              ELSE settings.earliestIndexedBlock
           fromBlock == NumberOrZero(earliestIndexed)
       IN  IF provider = "null" \/ settings.answerCacheReady
           THEN /\ tasks' = Replace(tasks, k, [k EXCEPT !.pc = "fnp_start"])
                /\ UNCHANGED settings
           ELSE IF lastBlock = 0 \/ allProposals = {}
           THEN /\ settings' = [settings EXCEPT !.answerCacheReady = TRUE]
                /\ tasks' = Replace(tasks, k, [k EXCEPT !.pc = "fnp_start"])
           ELSE /\ settings' = IF recovered
                               THEN [settings EXCEPT !.earliestIndexedBlock =
                                                        minCreatedBlock]
                               ELSE settings
                /\ tasks' = Replace(tasks, k,
                      IF fromBlock > lastBlock
                      THEN [k EXCEPT !.pc = "fnp_start"]
                      ELSE enterRangeScan(k, "ensure", "LogNewAnswer",
                                          fromBlock, lastBlock))
    /\ UNCHANGED <<pc, statusVars, claimVars, callVars, questionStates, chainHead, provider, pollTimer,
                   rpcFailureHandler, rpcFailoverInProgress, proposals, answers,
                   allProposals>>

\* ensureAnswerCacheCoverage after backfillAnswerHistory.
EnsureDone(k) ==
    /\ k.pc = "ensure_done"
    /\ settings' = [settings EXCEPT !.answerCacheReady = TRUE]
    /\ tasks' = Replace(tasks, k, leaveFlow(k, "fnp_start"))
    /\ UNCHANGED <<pc, statusVars, claimVars, callVars, questionStates, chainHead, provider, pollTimer,
                   rpcFailureHandler, rpcFailoverInProgress, proposals, answers,
                   allProposals>>

\* runIncrementalSync's provider test (connect, refresh), then fetchNewProposals:
\* await getSetting("lastProcessedBlock")
FnpStart(k) ==
    /\ k.pc = "fnp_start"
    /\ tasks' = Replace(tasks, k,
                    IF k.kind # "poll" /\ provider = "null"
                    THEN [k EXCEPT !.pc = "fnp_return"]
                    ELSE [k EXCEPT !.flow = "fnp",
                                   !.read = NumberOrZero(settings.lastProcessedBlock),
                                   !.pc = "fnp_head"])
    /\ UNCHANGED <<pc, statusVars, claimVars, callVars, questionStates, chainHead, provider, pollTimer,
                   rpcFailureHandler, rpcFailoverInProgress, storeVars>>

\* FnpHead scanning from lastBlock instead of lastBlock + 1.
FnpHead_rescanLast(k) ==
    /\ k.pc = "fnp_head"
    /\ tasks' = Replace(tasks, k,
                    IF chainHead <= k.read
                    THEN [k EXCEPT !.read = 0, !.pc = "fnp_done"]
                    ELSE enterRangeScan([k EXCEPT !.read = 0], "fnp",
                                        "ProposalQuestionCreated",
                                        k.read, chainHead))
    /\ UNCHANGED <<pc, statusVars, claimVars, callVars, questionStates, chainHead, provider, pollTimer,
                   rpcFailureHandler, rpcFailoverInProgress, storeVars>>

\* fetchNewProposals: await getBlockNumber(), then the scan of
\* lastBlock + 1 .. latestBlock unless there is no new block.
FnpHead(k) ==
    /\ k.pc = "fnp_head"
    /\ tasks' = Replace(tasks, k,
                    IF chainHead <= k.read
                    THEN [k EXCEPT !.read = 0, !.pc = "fnp_done"]
                    ELSE enterRangeScan([k EXCEPT !.read = 0], "fnp",
                                        "ProposalQuestionCreated",
                                        k.read + 1, chainHead))
    /\ UNCHANGED <<pc, statusVars, claimVars, callVars, questionStates, chainHead, provider, pollTimer,
                   rpcFailureHandler, rpcFailoverInProgress, storeVars>>

\* After fetchNewProposals (runIncrementalSync, or the polling callback): the
\* cache is reloaded when there are new proposals or state updates.
FnpDone(k) ==
    /\ k.pc = "fnp_done"
    /\ \E stateUpdates \in BOOLEAN :
          allProposals' = IF k.newProposals # {} \/ stateUpdates
                          THEN proposals ELSE allProposals
    /\ tasks' = Replace(tasks, k, leaveFlow(k, "fnp_return"))
    /\ UNCHANGED <<pc, statusVars, claimVars, callVars, questionStates, chainHead, provider, pollTimer,
                   rpcFailureHandler, rpcFailoverInProgress, settings, proposals,
                   answers>>

\* The refresh handler or the polling tick ends.
SyncReturn(k) ==
    /\ k.pc = "fnp_return"
    /\ k.kind \in {"refresh", "poll"}
    /\ tasks' = endTask(tasks, k)
    /\ UNCHANGED <<pc, statusVars, claimVars, callVars, questionStates, chainHead, provider, pollTimer,
                   rpcFailureHandler, rpcFailoverInProgress, storeVars>>

\* connectRPC after its sync: on to startPolling.
ConnectSynced(k) ==
    /\ k.pc = "fnp_return"
    /\ k.kind = "connect"
    /\ tasks' = Replace(tasks, k, [k EXCEPT !.pc = "connect_startPolling"])
    /\ UNCHANGED <<pc, statusVars, claimVars, callVars, questionStates, chainHead, provider, pollTimer,
                   rpcFailureHandler, rpcFailoverInProgress, storeVars>>

\* startPolling: stopPolling(), then the interval timer is armed; connectRPC
\* returns true.
ConnectStartPolling(k) ==
    /\ k.pc = "connect_startPolling"
    /\ k.kind # "reindex"
    /\ pollTimer' = TRUE
    /\ tasks' = endTask(tasks, k)
    /\ UNCHANGED <<pc, statusVars, claimVars, callVars, questionStates, chainHead, provider,
                   rpcFailureHandler, rpcFailoverInProgress, storeVars>>

\* The interval timer fires: the callback calls fetchNewProposals.
PollTick ==
    /\ pollTimer
    /\ CanSpawn
    /\ tasks' = Spawn(tasks, NewTask("poll", "fnp_start"))
    /\ UNCHANGED <<pc, statusVars, claimVars, callVars, questionStates, chainHead, provider, pollTimer,
                   rpcFailureHandler, rpcFailoverInProgress, storeVars>>

\* A click on the refresh button with a provider set.
RefreshClick ==
    /\ provider # "null"
    /\ CanSpawn
    /\ tasks' = Spawn(tasks, NewTask("refresh", "expand_start"))
    /\ UNCHANGED <<pc, statusVars, claimVars, callVars, questionStates, chainHead, provider, pollTimer,
                   rpcFailureHandler, rpcFailoverInProgress, storeVars>>

\* The chain grows.
NewBlocks ==
    /\ chainHead + BlockStep \in SessionBlocks
    /\ chainHead' = chainHead + BlockStep
    /\ UNCHANGED <<pc, statusVars, claimVars, callVars, questionStates, tasks, provider, pollTimer,
                   rpcFailureHandler, rpcFailoverInProgress, storeVars>>

\* withRetry gives up on a getLogs request and calls handleRpcFailure, which
\* returns at once (a failover is already running, or the user declines);
\* the error is thrown and allLogs is lost.
ScanExhausted(k) ==
    /\ k.pc = "scan_await"
    /\ rpcFailureHandler
    /\ tasks' = Replace(tasks, k, [leaveGetLogsChunked(k) EXCEPT !.pc = "throwing"])
    /\ UNCHANGED <<pc, statusVars, claimVars, callVars, questionStates, chainHead, provider, pollTimer,
                   rpcFailureHandler, rpcFailoverInProgress, storeVars>>

\* withRetry gives up and handleRpcFailure switches to the backup RPC:
\* stopPolling(), then await connectRPC(nextRpc).
ScanFailover(k) ==
    /\ k.pc = "scan_await"
    /\ rpcFailureHandler
    /\ ~rpcFailoverInProgress
    /\ CanSpawn
    /\ rpcFailoverInProgress' = TRUE
    /\ pollTimer' = FALSE
    /\ provider' = "rpc"
    /\ tasks' = Spawn(Replace(tasks, k,
                        [leaveGetLogsChunked(k) EXCEPT !.pc = "failover_wait"]),
                      [NewTask("connect", "connect_handshake")
                          EXCEPT !.failover = TRUE])
    /\ UNCHANGED <<pc, statusVars, claimVars, callVars, questionStates, chainHead, rpcFailureHandler,
                   storeVars>>

\* handleRpcFailure after connectRPC: the finally block clears the flag, and
\* withRetry throws the last error.
FailoverReturn(k) ==
    /\ k.pc = "failover_return"
    /\ rpcFailoverInProgress' = FALSE
    /\ tasks' = Replace(tasks, k, [k EXCEPT !.pc = "throwing"])
    /\ UNCHANGED <<pc, statusVars, claimVars, callVars, questionStates, chainHead, provider, pollTimer,
                   rpcFailureHandler, storeVars>>

\* The error leaves the scan: runBackfill catches it and connectRPC goes on;
\* connectRPC's own catch clears the provider; the refresh handler and the
\* polling tick log it.
Propagate(k) ==
    /\ k.pc = "throwing"
    /\ IF k.flow = "backfill"
       THEN /\ tasks' = Replace(tasks, k, leaveFlow(k, "connect_startPolling"))
            /\ UNCHANGED provider
       ELSE /\ tasks' = endTask(tasks, k)
            /\ provider' = IF k.kind = "connect" THEN "null" ELSE provider
    /\ UNCHANGED <<pc, statusVars, claimVars, callVars, questionStates, chainHead, pollTimer,
                   rpcFailureHandler, rpcFailoverInProgress, storeVars>>

InitSession ==
    /\ pc = "ready"
    /\ questionState = Null
    /\ moduleConfig = Null
    /\ now = 0
    /\ status = NotCalled
    /\ answerHistory = <<>>
    /\ userAddress = NoAddress
    /\ claimable = <<>>
    /\ totalClaimable = 0
    /\ claimArrays = NotCalled
    /\ tasks = EmptyBag
    /\ chainHead = BlockStep
    /\ provider = "null"
    /\ pollTimer = FALSE
    /\ rpcFailureHandler = FALSE
    /\ rpcFailoverInProgress = FALSE
    /\ settings = NoSettings
    /\ proposals = {}
    /\ answers = {}
    /\ allProposals = {}
    /\ questionStates = <<>>
    /\ NoCalls

NextSession ==
    \/ ConnectStart
    \/ PollTick
    \/ RefreshClick
    \/ NewBlocks
    \/ \E k \in Running : ConnectHandshakeOk(k)
    \/ \E k \in Running : ConnectHandshakeFail(k)
    \/ \E k \in Running : BackfillStart(k)
    \/ \E k \in Running : ScanIssue(k)
    \/ \E k \in Running : ScanReceive(k)
    \/ \E k \in Running : ScanReturn(k)
    \/ \E k \in Running : ScanExhausted(k)
    \/ \E k \in Running : ScanFailover(k)
    \/ \E k \in Running : FailoverReturn(k)
    \/ \E k \in Running : Propagate(k)
    \/ \E k \in Running : ProposalsScanned(k)
    \/ \E k \in Running : AnswersScanned(k)
    \/ \E k \in Running : ReadEarliest(k)
    \/ \E k \in Running : WriteEarliest(k)
    \/ \E k \in Running : ReadLast(k)
    \/ \E k \in Running : WriteLast(k)
    \/ \E k \in Running : BackfillDone(k)
    \/ \E k \in Running : ExpandStart(k)
    \/ \E k \in Running : ExpandDone(k)
    \/ \E k \in Running : EnsureStart(k)
    \/ \E k \in Running : EnsureDone(k)
    \/ \E k \in Running : FnpStart(k)
    \/ \E k \in Running : FnpHead(k)
    \/ \E k \in Running : FnpDone(k)
    \/ \E k \in Running : SyncReturn(k)
    \/ \E k \in Running : ConnectSynced(k)
    \/ \E k \in Running : ConnectStartPolling(k)

SpecSession == InitSession /\ [][NextSession]_vars

-----------------------------------------------------------------------------
(* The session with its entry points one after another: a connect, a refresh  *)
(* click or a polling tick starts only when no other call is in progress.     *)
(* A failover's connectRPC still runs inside the call that awaits it.         *)

Idle == tasks = EmptyBag

SeqConnectStart == Idle /\ ConnectStart
SeqPollTick == Idle /\ PollTick
SeqRefreshClick == Idle /\ RefreshClick

NextSequential ==
    \/ SeqConnectStart
    \/ SeqPollTick
    \/ SeqRefreshClick
    \/ NewBlocks
    \/ \E k \in Running : ConnectHandshakeOk(k)
    \/ \E k \in Running : ConnectHandshakeFail(k)
    \/ \E k \in Running : BackfillStart(k)
    \/ \E k \in Running : ScanIssue(k)
    \/ \E k \in Running : ScanReceive(k)
    \/ \E k \in Running : ScanReturn(k)
    \/ \E k \in Running : ScanExhausted(k)
    \/ \E k \in Running : ScanFailover(k)
    \/ \E k \in Running : FailoverReturn(k)
    \/ \E k \in Running : Propagate(k)
    \/ \E k \in Running : ProposalsScanned(k)
    \/ \E k \in Running : AnswersScanned(k)
    \/ \E k \in Running : ReadEarliest(k)
    \/ \E k \in Running : WriteEarliest(k)
    \/ \E k \in Running : ReadLast(k)
    \/ \E k \in Running : WriteLast(k)
    \/ \E k \in Running : BackfillDone(k)
    \/ \E k \in Running : ExpandStart(k)
    \/ \E k \in Running : ExpandDone(k)
    \/ \E k \in Running : EnsureStart(k)
    \/ \E k \in Running : EnsureDone(k)
    \/ \E k \in Running : FnpStart(k)
    \/ \E k \in Running : FnpHead(k)
    \/ \E k \in Running : FnpDone(k)
    \/ \E k \in Running : SyncReturn(k)
    \/ \E k \in Running : ConnectSynced(k)
    \/ \E k \in Running : ConnectStartPolling(k)

SpecSequential == InitSession /\ [][NextSequential]_vars

-----------------------------------------------------------------------------
(* The session with the re-index button: doReindex may run while another     *)
(* call is in progress.                                                      *)

\* The frame of a fetchNewProposals that has read a lastProcessedBlock other
\* than null: it is in lastBlock, or in the fromBlock = lastBlock + 1 of its scan.
holdsLastProcessed(k) ==
    /\ k.flow = "fnp"
    /\ (k.pc = "fnp_head" /\ k.read > 0) \/ k.syncFrom > 1

\* The calls in progress when the cache is wiped, those that hold a
\* lastProcessedBlock marked.
RECURSIVE markPreWipe(_)
markPreWipe(S) ==
    IF S = {} THEN EmptyBag
    ELSE LET k == CHOOSE x \in S : TRUE
             m == IF holdsLastProcessed(k) THEN [k EXCEPT !.preWipe = TRUE] ELSE k
         IN  [x \in {m} |-> tasks[k]] (+) markPreWipe(S \ {k})

\* doReindex: await dbClearAll() clears every store in one transaction, the
\* mirrors are reset, then runBackfill starts.
Reindex ==
    /\ CanSpawn
    /\ settings' = NoSettings
    /\ proposals' = {}
    /\ answers' = {}
    /\ allProposals' = {}
    /\ questionStates' = <<>>
    /\ tasks' = Spawn(markPreWipe(Running), NewTask("reindex", "backfill_start"))
    /\ UNCHANGED <<pc, statusVars, claimVars, callVars, chainHead, provider, pollTimer,
                   rpcFailureHandler, rpcFailoverInProgress>>

\* doReindex returns after runBackfill.
ReindexReturn(k) ==
    /\ k.pc = "connect_startPolling"
    /\ k.kind = "reindex"
    /\ tasks' = endTask(tasks, k)
    /\ UNCHANGED <<pc, statusVars, claimVars, callVars, questionStates, chainHead, provider, pollTimer,
                   rpcFailureHandler, rpcFailoverInProgress, storeVars>>

NextReindex ==
    \/ SeqConnectStart
    \/ SeqPollTick
    \/ SeqRefreshClick
    \/ NewBlocks
    \/ Reindex
    \/ \E k \in Running : ReindexReturn(k)
    \/ \E k \in Running : ConnectHandshakeOk(k)
    \/ \E k \in Running : ConnectHandshakeFail(k)
    \/ \E k \in Running : BackfillStart(k)
    \/ \E k \in Running : ScanIssue(k)
    \/ \E k \in Running : ScanReceive(k)
    \/ \E k \in Running : ScanReturn(k)
    \/ \E k \in Running : ScanExhausted(k)
    \/ \E k \in Running : Propagate(k)
    \/ \E k \in Running : ProposalsScanned(k)
    \/ \E k \in Running : AnswersScanned(k)
    \/ \E k \in Running : ReadEarliest(k)
    \/ \E k \in Running : WriteEarliest(k)
    \/ \E k \in Running : ReadLast(k)
    \/ \E k \in Running : WriteLast(k)
    \/ \E k \in Running : BackfillDone(k)
    \/ \E k \in Running : ExpandStart(k)
    \/ \E k \in Running : ExpandDone(k)
    \/ \E k \in Running : EnsureStart(k)
    \/ \E k \in Running : EnsureDone(k)
    \/ \E k \in Running : FnpStart(k)
    \/ \E k \in Running : FnpHead(k)
    \/ \E k \in Running : FnpDone(k)
    \/ \E k \in Running : SyncReturn(k)
    \/ \E k \in Running : ConnectSynced(k)
    \/ \E k \in Running : ConnectStartPolling(k)

SpecReindex == InitSession /\ [][NextReindex]_vars

-----------------------------------------------------------------------------
(* app.js: the session with the question states.  One flow at a time, as in  *)
(* SpecSequential; the state loading that BackfillDone, ExpandDone and       *)
(* FnpDone leave out is spelled out, and the user opens proposal details.    *)

\* What loadQuestionState can return, as far as the refresh filter looks at
\* it: isFinalized() is false while arbitration is pending.
ChainQuestionStates ==
    {st \in [isFinalized : BOOLEAN, isPendingArbitration : BOOLEAN] :
        ~(st.isFinalized /\ st.isPendingArbitration)}

\* A finalized question stays finalized; any other one may have moved on
\* since it was cached.
loadQuestionState(questionId) ==
    IF questionId \in DOMAIN questionStates /\ questionStates[questionId].isFinalized
    THEN {questionStates[questionId]}
    ELSE ChainQuestionStates

\* dbPut("questions_state", state) and questionStates.set(questionId, state)
questionStatesSet(qs, questionId, state) ==
    [q \in DOMAIN qs \cup {questionId} |-> IF q = questionId THEN state ELSE qs[q]]

\* loadAllQuestionStates(list) as a whole: every proposal of the list gets a
\* freshly loaded state, except those whose load failed.
loadAllQuestionStates(list) ==
    UNION {{[q \in DOMAIN questionStates \cup loaded |->
                IF q \in loaded THEN st[q] ELSE questionStates[q]] :
             st \in {f \in [loaded -> ChainQuestionStates] :
                       \A q \in loaded : f[q] \in loadQuestionState(q)}} :
           loaded \in SUBSET list}

\* The filter of refreshActiveQuestionStates:
\* !qs || !qs.isFinalized || qs.isPendingArbitration
isActive(questionId) ==
    \/ questionId \notin DOMAIN questionStates
    \/ ~questionStates[questionId].isFinalized
    \/ questionStates[questionId].isPendingArbitration

\* fetchAnswerHistory(provider, questionId): the answers of the question from
\* its creation block to the head.
answerHistoryLogs(questionId) ==
    SelectSeq(getLogs("LogNewAnswer", questionId, chainHead),
              LAMBDA log : log.questionId = questionId)

\* runBackfill after backfillProposals: await loadAllQuestionStates(proposals).
BackfillStates(k) ==
    /\ k.pc = "backfill_done"
    /\ questionStates' \in loadAllQuestionStates(k.newProposals)
    /\ tasks' = Replace(tasks, k, [k EXCEPT !.pc = "backfill_ready"])
    /\ UNCHANGED <<pc, statusVars, claimVars, callVars, chainHead, provider, pollTimer,
                   rpcFailureHandler, rpcFailoverInProgress, storeVars>>

\* setSetting("answerCacheReady", true) in place of the catch block's log.
BackfillReady_evenOnError(k) ==
    /\ k.pc \in {"backfill_ready", "throwing"}
    /\ k.flow = "backfill" \/ k.pc = "backfill_ready"
    /\ settings' = [settings EXCEPT !.answerCacheReady = TRUE]
    /\ allProposals' = proposals
    /\ tasks' = Replace(tasks, k, leaveFlow(k, "connect_startPolling"))
    /\ UNCHANGED <<pc, statusVars, claimVars, callVars, questionStates, chainHead, provider, pollTimer,
                   rpcFailureHandler, rpcFailoverInProgress, proposals, answers>>

\* runBackfill: await setSetting("answerCacheReady", true), loadCachedData().
BackfillReady(k) ==
    /\ k.pc = "backfill_ready"
    /\ settings' = [settings EXCEPT !.answerCacheReady = TRUE]
    /\ allProposals' = proposals
    /\ tasks' = Replace(tasks, k, leaveFlow(k, "connect_startPolling"))
    /\ UNCHANGED <<pc, statusVars, claimVars, callVars, questionStates, chainHead, provider, pollTimer,
                   rpcFailureHandler, rpcFailoverInProgress, proposals, answers>>

\* ExpandDone, with loadAllQuestionStates(olderProposals).
ExpandStates(k) ==
    /\ k.pc = "expand_done"
    /\ questionStates' \in loadAllQuestionStates(k.newProposals)
    /\ allProposals' = IF k.newProposals # {} THEN proposals ELSE allProposals
    /\ tasks' = Replace(tasks, k, leaveFlow(k, afterExpand(k)))
    /\ UNCHANGED <<pc, statusVars, claimVars, callVars, chainHead, provider, pollTimer,
                   rpcFailureHandler, rpcFailoverInProgress, settings, proposals,
                   answers>>

\* runIncrementalSync or the polling callback after fetchNewProposals:
\* loadAllQuestionStates(newProposals) starts if there are new proposals.
SyncLoadNew(k) ==
    /\ k.pc = "fnp_done"
    /\ tasks' = Replace(tasks, k,
                    IF k.newProposals # {}
                    THEN [k EXCEPT !.queue = SortedSeq(k.newProposals),
                                   !.pc = "loadNew_await"]
                    ELSE [k EXCEPT !.pc = "refresh_start"])
    /\ UNCHANGED <<pc, statusVars, claimVars, callVars, questionStates, chainHead, provider,
                   pollTimer, rpcFailureHandler, rpcFailoverInProgress, storeVars>>

\* The task moves on to the next proposal of its queue, or to nextPc.
nextInQueue(task, nextPc) ==
    [task EXCEPT !.queue = Tail(@),
                 !.pc = IF Len(task.queue) = 1 THEN nextPc ELSE task.pc]

\* loadAllQuestionStates: the loadQuestionState of one new proposal resolves
\* and is cached, or throws and is skipped.
LoadNewResult(k) ==
    /\ k.pc = "loadNew_await"
    /\ \/ UNCHANGED questionStates
       \/ /\ provider # "null"
          /\ \E state \in loadQuestionState(Head(k.queue)) :
                questionStates' = questionStatesSet(questionStates, Head(k.queue), state)
    /\ tasks' = Replace(tasks, k, nextInQueue(k, "refresh_start"))
    /\ UNCHANGED <<pc, statusVars, claimVars, callVars, chainHead, provider, pollTimer,
                   rpcFailureHandler, rpcFailoverInProgress, storeVars>>

\* refreshActiveQuestionStates: the active proposals are picked from the
\* mirror once, before the loop.
RefreshStart(k) ==
    /\ k.pc = "refresh_start"
    /\ LET active == {p \in allProposals : isActive(p)}
       IN  tasks' = Replace(tasks, k,
                       IF provider = "null" \/ allProposals = {} \/ active = {}
                       THEN [k EXCEPT !.pc = "sync_reload"]
                       ELSE [k EXCEPT !.queue = SortedSeq(active),
                                      !.pc = "refresh_await"])
    /\ UNCHANGED <<pc, statusVars, claimVars, callVars, questionStates, chainHead, provider,
                   pollTimer, rpcFailureHandler, rpcFailoverInProgress, storeVars>>

\* refreshActiveQuestionStates: the loadQuestionState of one active proposal
\* resolves (a state that differs in a compared field counts as an update)
\* or throws.
RefreshResult(k) ==
    /\ k.pc = "refresh_await"
    /\ \/ /\ UNCHANGED questionStates
          /\ tasks' = Replace(tasks, k, nextInQueue(k, "sync_reload"))
       \/ /\ provider # "null"
          /\ \E next \in loadQuestionState(Head(k.queue)) :
             \E otherFieldChanged \in BOOLEAN :
                LET p == Head(k.queue)
                    changed == \/ p \notin DOMAIN questionStates
                               \/ questionStates[p] # next
                               \/ otherFieldChanged
                IN  /\ questionStates' = questionStatesSet(questionStates, p, next)
                    /\ tasks' = Replace(tasks, k,
                                    nextInQueue([k EXCEPT !.updates = @ \/ changed],
                                                "sync_reload"))
    /\ UNCHANGED <<pc, statusVars, claimVars, callVars, chainHead, provider, pollTimer,
                   rpcFailureHandler, rpcFailoverInProgress, storeVars>>

\* The end of runIncrementalSync or of the polling callback: loadCachedData
\* if there were new proposals or state updates.
SyncReload(k) ==
    /\ k.pc = "sync_reload"
    /\ allProposals' = IF k.newProposals # {} \/ k.updates
                       THEN proposals ELSE allProposals
    /\ tasks' = Replace(tasks, k, leaveFlow(k, "fnp_return"))
    /\ UNCHANGED <<pc, statusVars, claimVars, callVars, questionStates, chainHead, provider,
                   pollTimer, rpcFailureHandler, rpcFailoverInProgress, settings,
                   proposals, answers>>

\* The user opens a listed proposal (openProposalDetail): a missing state is
\* loaded, and a missing answer history is fetched; either may fail.
OpenDetail ==
    /\ Idle
    /\ provider # "null"
    /\ \E p \in allProposals :
          /\ \/ UNCHANGED questionStates
             \/ /\ p \notin DOMAIN questionStates
                /\ \E state \in loadQuestionState(p) :
                      questionStates' = questionStatesSet(questionStates, p, state)
          /\ \/ UNCHANGED answers
             \/ /\ \A a \in answers : a \notin AnswerKeys(answerHistoryLogs(p))
                /\ answers' = answers \cup AnswerKeys(answerHistoryLogs(p))
    /\ UNCHANGED <<pc, statusVars, claimVars, callVars, tasks, chainHead, provider, pollTimer,
                   rpcFailureHandler, rpcFailoverInProgress, settings, proposals,
                   allProposals>>

NextStates ==
    \/ SeqConnectStart
    \/ SeqPollTick
    \/ SeqRefreshClick
    \/ NewBlocks
    \/ OpenDetail
    \/ \E k \in Running : ConnectHandshakeOk(k)
    \/ \E k \in Running : ConnectHandshakeFail(k)
    \/ \E k \in Running : BackfillStart(k)
    \/ \E k \in Running : ScanIssue(k)
    \/ \E k \in Running : ScanReceive(k)
    \/ \E k \in Running : ScanReturn(k)
    \/ \E k \in Running : ScanExhausted(k)
    \/ \E k \in Running : ScanFailover(k)
    \/ \E k \in Running : FailoverReturn(k)
    \/ \E k \in Running : Propagate(k)
    \/ \E k \in Running : ProposalsScanned(k)
    \/ \E k \in Running : AnswersScanned(k)
    \/ \E k \in Running : ReadEarliest(k)
    \/ \E k \in Running : WriteEarliest(k)
    \/ \E k \in Running : ReadLast(k)
    \/ \E k \in Running : WriteLast(k)
    \/ \E k \in Running : BackfillStates(k)
    \/ \E k \in Running : BackfillReady(k)
    \/ \E k \in Running : ExpandStart(k)
    \/ \E k \in Running : ExpandStates(k)
    \/ \E k \in Running : EnsureStart(k)
    \/ \E k \in Running : EnsureDone(k)
    \/ \E k \in Running : FnpStart(k)
    \/ \E k \in Running : FnpHead(k)
    \/ \E k \in Running : SyncLoadNew(k)
    \/ \E k \in Running : LoadNewResult(k)
    \/ \E k \in Running : RefreshStart(k)
    \/ \E k \in Running : RefreshResult(k)
    \/ \E k \in Running : SyncReload(k)
    \/ \E k \in Running : SyncReturn(k)
    \/ \E k \in Running : ConnectSynced(k)
    \/ \E k \in Running : ConnectStartPolling(k)

SpecStates == InitSession /\ [][NextStates]_vars

-----------------------------------------------------------------------------
(* The first connects: connectRPC is called while no watermark is stored and *)
(* no other call is in progress, so that it runs runBackfill.                 *)

FirstConnect ==
    /\ Idle
    /\ NumberOrZero(settings.lastProcessedBlock) = 0
    /\ ConnectStart

NextBackfill ==
    \/ FirstConnect
    \/ NewBlocks
    \/ \E k \in Running : ConnectHandshakeOk(k)
    \/ \E k \in Running : ConnectHandshakeFail(k)
    \/ \E k \in Running : BackfillStart(k)
    \/ \E k \in Running : ScanIssue(k)
    \/ \E k \in Running : ScanReceive(k)
    \/ \E k \in Running : ScanReturn(k)
    \/ \E k \in Running : ScanExhausted(k)
    \/ \E k \in Running : Propagate(k)
    \/ \E k \in Running : ProposalsScanned(k)
    \/ \E k \in Running : AnswersScanned(k)
    \/ \E k \in Running : ReadEarliest(k)
    \/ \E k \in Running : WriteEarliest(k)
    \/ \E k \in Running : ReadLast(k)
    \/ \E k \in Running : WriteLast(k)
    \/ \E k \in Running : BackfillStates(k)
    \/ \E k \in Running : BackfillReady(k)
    \/ \E k \in Running : ConnectStartPolling(k)

SpecBackfill == InitSession /\ [][NextBackfill]_vars

-----------------------------------------------------------------------------
(* indexer.js: one call backfillProposalsRange(provider, fromBlock, toBlock)  *)
(* on empty stores, with no failure handler registered: the proposal scan,   *)
(* the answer scan, then updateIndexedRangeSettings.                          *)

InitRange ==
    /\ pc = "ready"
    /\ questionState = Null
    /\ moduleConfig = Null
    /\ now = 0
    /\ status = NotCalled
    /\ answerHistory = <<>>
    /\ userAddress = NoAddress
    /\ claimable = <<>>
    /\ totalClaimable = 0
    /\ claimArrays = NotCalled
    /\ \E fromBlock \in ScanBlocks, toBlock \in ScanBlocks :
          tasks = SetToBag({
              IF toBlock < fromBlock
              THEN [NewTask("range", "backfill_done") EXCEPT !.flow = "backfill"]
              ELSE enterRangeScan(NewTask("range", "call"), "backfill",
                                  "ProposalQuestionCreated", fromBlock, toBlock)})
    /\ chainHead = MaxChunks * LOG_CHUNK_SIZE + 1
    /\ provider = "rpc"
    /\ pollTimer = FALSE
    /\ rpcFailureHandler = FALSE
    /\ rpcFailoverInProgress = FALSE
    /\ settings = NoSettings
    /\ proposals = {}
    /\ answers = {}
    /\ allProposals = {}
    /\ questionStates = <<>>
    /\ NoCalls

NextRange ==
    \/ \E k \in Running : ScanIssue(k)
    \/ \E k \in Running : ScanReceive(k)
    \/ \E k \in Running : ScanReturn(k)
    \/ \E k \in Running : ScanThrow(k)
    \/ \E k \in Running : ProposalsScanned(k)
    \/ \E k \in Running : AnswersScanned(k)
    \/ \E k \in Running : ReadEarliest(k)
    \/ \E k \in Running : WriteEarliest(k)
    \/ \E k \in Running : ReadLast(k)
    \/ \E k \in Running : WriteLast(k)

SpecRange == InitRange /\ [][NextRange]_vars

-----------------------------------------------------------------------------
(* indexer.js / db.js: the records.  The proposals and answers stores hold   *)
(* the whole records, and the calls that write them run one after another:   *)
(* a call stores what it stores in one step and its frame stays until it     *)
(* returns.  An id (bytes32 question id, proposal id string) is a pair       *)
(* <<name, spelling>>, spelling 0 being the lower-case one.                  *)

\* The empty string as a proposal id.
EmptyId == <<0, 0>>

\* (proposalId || "").trim().toLowerCase()
normalizeProposalId(proposalId) == toLowerCase(proposalId)

\* dbPut replacing the whole store by the new record.
dbPut_clearStore(store, keyPath, value) == {value}

\* store.put(value) on a store with the given key path: an upsert.
dbPut(store, keyPath, value) ==
    {r \in store : r[keyPath] # value[keyPath]} \cup {value}

\* The dbPut calls of a loop, in order.
RECURSIVE dbPutAll(_, _, _)
dbPutAll(store, keyPath, values) ==
    IF values = <<>> THEN store
    ELSE dbPutAll(dbPut(store, keyPath, Head(values)), keyPath, Tail(values))

\* realitioIface.parseLog on a LogNewAnswer log: ethers gives the question id
\* in lower case; the bond is a bigint.
parseAnswerLog(log) ==
    [question_id |-> <<log.questionId, 0>>,
     answer |-> IF log.logIndex = 1 THEN ANSWER_YES ELSE ANSWER_NO,
     bond |-> log.logIndex,
     ts |-> log.blockNumber]

\* The addProposal call that created the question of a creation log: the
\* proposal id as the proposer spelled it, and the transaction hashes in
\* execution order.
addProposalArgs(log) ==
    [proposalId |-> <<log.questionId, 1>>, txHashes |-> <<"0x0b", "0x0a">>]

\* indexAnswersInRange: the record of one log.
indexedAnswer(log) ==
    LET parsed == parseAnswerLog(log)
        questionId == parsed.question_id
    IN  [id |-> <<questionId, log.blockNumber, log.transactionIndex, log.logIndex>>,
         questionId |-> questionId,
         answer |-> parsed.answer,
         bond |-> toString(parsed.bond),
         ts |-> parsed.ts,
         blockNumber |-> log.blockNumber,
         logIndex |-> log.logIndex]

\* An id without the transaction index.
historyAnswerId_noTransactionIndex(questionId, log) == <<questionId, log.blockNumber, log.logIndex>>

\* fetchAnswerHistory: `${questionId}:${blockNumber}:${transactionIndex}:${index}`
historyAnswerId(questionId, log) == <<questionId, log.blockNumber, log.transactionIndex, log.logIndex>>

\* fetchAnswerHistory: the record of one log; id and questionId are spelled
\* as the argument is.
fetchedAnswer(questionId, log) ==
    LET parsed == parseAnswerLog(log)
    IN  [id |-> historyAnswerId(questionId, log),
         questionId |-> questionId,
         answer |-> parsed.answer,
         bond |-> toString(parsed.bond),
         ts |-> parsed.ts,
         blockNumber |-> log.blockNumber,
         logIndex |-> log.logIndex]

\* Math.max(0, latestBlock - 50000) for a question with no stored proposal.
HistoryLookback == 50000

\* fetchAnswerHistory(provider, questionId) on the given proposals store: the
\* records it puts, in order.  The node matches the topic, the loop compares
\* the lower-cased ids again.
fetchAnswerHistory(store, questionId) ==
    LET known == {r \in store : r.questionId = questionId}
        startBlock == IF known # {} THEN (CHOOSE r \in known : TRUE).createdBlock
                      ELSE Max(0, chainHead - HistoryLookback)
        logs == SelectSeq(getLogs("LogNewAnswer", startBlock, chainHead),
                          LAMBDA log : log.questionId = questionId[1])
        mine == SelectSeq(logs, LAMBDA log :
                    toLowerCase(parseAnswerLog(log).question_id)
                        = toLowerCase(questionId))
    IN  [i \in 1..Len(mine) |-> fetchedAnswer(questionId, mine[i])]

\* Which of the three requests of decodeProposalFromLog went through.
DecodeOutcomes == [getTransaction : BOOLEAN, buildQuestion : BOOLEAN, getBlock : BOOLEAN]

\* log.transactionHash: a transaction is named by its block and its index.
transactionHash(log) == <<log.blockNumber, log.transactionIndex>>

\* decodeProposalFromLog asking buildQuestion whatever getTransaction gave.
decodeProposalFromLog_alwaysBuildsQuestion(log, rpc) ==
    LET proposalId == IF rpc.getTransaction THEN addProposalArgs(log).proposalId
                      ELSE EmptyId
        txHashes == IF rpc.getTransaction THEN addProposalArgs(log).txHashes ELSE <<>>
    IN  [questionId |-> <<log.questionId, 0>>,
         proposalId |-> proposalId,
         txHashes |-> txHashes,
         questionText |-> IF rpc.buildQuestion THEN "question" ELSE "",
         createdBlock |-> log.blockNumber,
         createdTxHash |-> transactionHash(log),
         createdTimestamp |-> IF rpc.getBlock THEN log.blockNumber ELSE 0]

\* decodeProposalFromLog: a failed getTransaction leaves proposalId "" and
\* txHashes []; a failed buildQuestion questionText ""; a failed getBlock
\* createdTimestamp 0.
decodeProposalFromLog(log, rpc) ==
    LET proposalId == IF rpc.getTransaction THEN addProposalArgs(log).proposalId
                      ELSE EmptyId
        txHashes == IF rpc.getTransaction THEN addProposalArgs(log).txHashes ELSE <<>>
    IN  [questionId |-> <<log.questionId, 0>>,
         proposalId |-> proposalId,
         txHashes |-> txHashes,
         questionText |-> IF Len(txHashes) > 0 /\ proposalId # EmptyId
                             /\ rpc.buildQuestion
                          THEN "question" ELSE "",
         createdBlock |-> log.blockNumber,
         createdTxHash |-> transactionHash(log),
         createdTimestamp |-> IF rpc.getBlock THEN log.blockNumber ELSE 0]

\* The frame of a call that writes records.  before: the answers store when
\* the call started.
IndexCall(kind, fromBlock, toBlock, id, logs) ==
    [kind |-> kind, pc |-> "returning", fromBlock |-> fromBlock, toBlock |-> toBlock,
     id |-> id, allLogs |-> logs, before |-> answers]

\* Block ranges of the range syncs.
RangeBlocks == {0} \cup SessionBlocks \cup {b + 1 : b \in SessionBlocks}

\* indexAnswersInRange(provider, fromBlock, toBlock): every log of the range
\* is parsed and put, unless getLogsChunked throws.
IndexAnswersInRange ==
    /\ Idle
    /\ \E fromBlock \in RangeBlocks, toBlock \in RangeBlocks :
          /\ fromBlock <= toBlock /\ toBlock <= chainHead
          /\ LET logs == getLogs("LogNewAnswer", fromBlock, toBlock)
                 call == IndexCall("indexAnswersInRange", fromBlock, toBlock,
                                   EmptyId, logs)
             IN  \/ /\ answers' = dbPutAll(answers, "id",
                                     [i \in 1..Len(logs) |-> indexedAnswer(logs[i])])
                    /\ tasks' = Spawn(tasks, call)
                 \/ /\ UNCHANGED answers
                    /\ tasks' = Spawn(tasks, [call EXCEPT !.pc = "throwing",
                                                          !.allLogs = <<>>])
    /\ UNCHANGED <<pc, statusVars, claimVars, callVars, questionStates, chainHead, provider,
                   pollTimer, rpcFailureHandler, rpcFailoverInProgress, settings,
                   proposals, allProposals>>

\* fetchAnswerHistory(provider, proposal.questionId) for a stored proposal
\* (openProposalDetail, after a vote): the answers of the question are put,
\* unless getLogsChunked throws.
FetchAnswerHistory ==
    /\ Idle
    /\ \E proposal \in proposals :
          LET records == fetchAnswerHistory(proposals, proposal.questionId)
              call == IndexCall("fetchAnswerHistory", proposal.createdBlock, chainHead,
                                proposal.questionId, <<>>)
          IN  \/ /\ answers' = dbPutAll(answers, "id", records)
                 /\ tasks' = Spawn(tasks, [call EXCEPT !.allLogs = records])
              \/ /\ UNCHANGED answers
                 /\ tasks' = Spawn(tasks, [call EXCEPT !.pc = "throwing"])
    /\ UNCHANGED <<pc, statusVars, claimVars, callVars, questionStates, chainHead, provider,
                   pollTimer, rpcFailureHandler, rpcFailoverInProgress, settings,
                   proposals, allProposals>>

\* scanProposalsInRange(provider, fromBlock, toBlock): every log of the range
\* is decoded and put, unless getLogsChunked throws.  Outcomes: how the
\* requests of a decodeProposalFromLog can go; Starts: the first blocks and
\* Ends: the last blocks the callers pass.
scanProposals(Starts, Ends, Outcomes) ==
    /\ Idle
    /\ \E fromBlock \in Starts, toBlock \in Ends :
          /\ fromBlock <= toBlock /\ toBlock <= chainHead
          /\ LET logs == getLogs("ProposalQuestionCreated", fromBlock, toBlock)
                 call == IndexCall("scanProposalsInRange", fromBlock, toBlock,
                                   EmptyId, logs)
             IN  \/ \E rpc \in [1..Len(logs) -> Outcomes] :
                       /\ proposals' = dbPutAll(proposals, "questionId",
                             [i \in 1..Len(logs) |->
                                 decodeProposalFromLog(logs[i], rpc[i])])
                       /\ tasks' = Spawn(tasks, call)
                 \/ /\ UNCHANGED proposals
                    /\ tasks' = Spawn(tasks, [call EXCEPT !.pc = "throwing",
                                                          !.allLogs = <<>>])
    /\ UNCHANGED <<pc, statusVars, claimVars, callVars, questionStates, chainHead, provider,
                   pollTimer, rpcFailureHandler, rpcFailoverInProgress, settings,
                   answers, allProposals>>

scanProposalsInRange(Outcomes) == scanProposals(RangeBlocks, RangeBlocks, Outcomes)

\* One loop of findProposalById over the given logs: each log is decoded and
\* put; at the first one whose proposal id matches and whose
\* fetchAnswerHistory goes through, the call returns the proposal.
findLoop(k, logs, nextPc, Outcomes) ==
    \E rpc \in [1..Len(logs) -> Outcomes], history \in [1..Len(logs) -> BOOLEAN] :
       LET decoded == [i \in 1..Len(logs) |-> decodeProposalFromLog(logs[i], rpc[i])]
           hits == {i \in 1..Len(logs) :
                      /\ normalizeProposalId(decoded[i].proposalId)
                            = normalizeProposalId(k.id)
                      /\ history[i]}
           last == IF hits = {} THEN Len(logs)
                   ELSE CHOOSE i \in hits : \A j \in hits : i <= j
           stored == dbPutAll(proposals, "questionId", SubSeq(decoded, 1, last))
       IN  /\ proposals' = stored
           /\ answers' = IF hits = {} THEN answers
                         ELSE dbPutAll(answers, "id",
                                  fetchAnswerHistory(stored, decoded[last].questionId))
           /\ tasks' = Replace(tasks, k,
                           [k EXCEPT !.allLogs = logs,
                                     !.pc = IF hits = {} THEN nextPc ELSE "returning"])

\* resolvePendingDeepLink finds no listed proposal with the id of the link
\* and calls findProposalById.
FindProposalById ==
    /\ Idle
    /\ \E target \in {<<b, spelling>> : b \in {1} \cup SessionBlocks, spelling \in {0, 1}} :
          /\ \A r \in proposals :
                normalizeProposalId(r.proposalId) # normalizeProposalId(target)
          /\ tasks' = Spawn(tasks,
                [IndexCall("findProposalById", 0, chainHead, target, <<>>)
                    EXCEPT !.pc = "find_hashed"])
    /\ UNCHANGED <<pc, statusVars, claimVars, callVars, questionStates, chainHead, provider,
                   pollTimer, rpcFailureHandler, rpcFailoverInProgress, storeVars>>

\* findProposalById, first attempt: the logs whose indexed proposal hash is
\* that of the id as given.
findHashed(k, Outcomes) ==
    /\ k.pc = "find_hashed"
    /\ \/ findLoop(k, SelectSeq(getLogs("ProposalQuestionCreated", 0, k.toBlock),
                                LAMBDA log : addProposalArgs(log).proposalId = k.id),
                   "find_fallback", Outcomes)
       \/ /\ tasks' = Replace(tasks, k, [k EXCEPT !.pc = "throwing"])
          /\ UNCHANGED <<proposals, answers>>
    /\ UNCHANGED <<pc, statusVars, claimVars, callVars, questionStates, chainHead, provider,
                   pollTimer, rpcFailureHandler, rpcFailoverInProgress, settings,
                   allProposals>>

\* findProposalById, fallback: all creation logs from block 0 to the head.
findFallback(k, Outcomes) ==
    /\ k.pc = "find_fallback"
    /\ \/ findLoop(k, getLogs("ProposalQuestionCreated", 0, k.toBlock), "returning",
                    Outcomes)
       \/ /\ tasks' = Replace(tasks, k, [k EXCEPT !.pc = "throwing"])
          /\ UNCHANGED <<proposals, answers>>
    /\ UNCHANGED <<pc, statusVars, claimVars, callVars, questionStates, chainHead, provider,
                   pollTimer, rpcFailureHandler, rpcFailoverInProgress, settings,
                   allProposals>>

\* The call returns, or its caller catches what it threw.
IndexReturn(k) ==
    /\ k.pc \in {"returning", "throwing"}
    /\ tasks' = tasks (-) SetToBag({k})
    /\ UNCHANGED <<pc, statusVars, claimVars, callVars, questionStates, chainHead, provider,
                   pollTimer, rpcFailureHandler, rpcFailoverInProgress, storeVars>>

InitIndex ==
    /\ pc = "ready"
    /\ questionState = Null
    /\ moduleConfig = Null
    /\ now = 0
    /\ status = NotCalled
    /\ answerHistory = <<>>
    /\ userAddress = NoAddress
    /\ claimable = <<>>
    /\ totalClaimable = 0
    /\ claimArrays = NotCalled
    /\ tasks = EmptyBag
    /\ chainHead = BlockStep
    /\ provider = "rpc"
    /\ pollTimer = FALSE
    /\ rpcFailureHandler = TRUE
    /\ rpcFailoverInProgress = FALSE
    /\ settings = NoSettings
    /\ proposals = {}
    /\ answers = {}
    /\ allProposals = {}
    /\ questionStates = <<>>
    /\ NoCalls

ScanProposalsInRange == scanProposalsInRange(DecodeOutcomes)
FindHashed(k) == findHashed(k, DecodeOutcomes)
FindFallback(k) == findFallback(k, DecodeOutcomes)

NextIndex ==
    \/ NewBlocks
    \/ IndexAnswersInRange
    \/ FetchAnswerHistory
    \/ ScanProposalsInRange
    \/ FindProposalById
    \/ \E k \in Running : FindHashed(k)
    \/ \E k \in Running : FindFallback(k)
    \/ \E k \in Running : IndexReturn(k)

SpecIndex == InitIndex /\ [][NextIndex]_vars

-----------------------------------------------------------------------------
(* The same calls as far as the answers store goes.  What a failed request   *)
(* of decodeProposalFromLog changes is the proposal record; for the answers  *)
(* it only means that findProposalById does not recognise the proposal and   *)
(* fetches no history, which the failure of that fetch covers as well.  So   *)
(* here every decodeProposalFromLog gets its three answers.                  *)

RequestsAnswered ==
    {rpc \in DecodeOutcomes : rpc.getTransaction /\ rpc.buildQuestion /\ rpc.getBlock}

ScanProposalsDecoded == scanProposalsInRange(RequestsAnswered)
FindHashedDecoded(k) == findHashed(k, RequestsAnswered)
FindFallbackDecoded(k) == findFallback(k, RequestsAnswered)

NextAnswers ==
    \/ NewBlocks
    \/ IndexAnswersInRange
    \/ FetchAnswerHistory
    \/ ScanProposalsDecoded
    \/ FindProposalById
    \/ \E k \in Running : FindHashedDecoded(k)
    \/ \E k \in Running : FindFallbackDecoded(k)
    \/ \E k \in Running : IndexReturn(k)

SpecAnswers == InitIndex /\ [][NextAnswers]_vars

-----------------------------------------------------------------------------
(* scanProposalsInRange alone: the proposal records under failing requests   *)

\* The scan of a range that ends at the chain head, as the syncs call it.
ScanProposalsToHead == scanProposals({0} \cup SessionBlocks, {chainHead}, DecodeOutcomes)

\* The chain holds two creation logs.
InitDecode ==
    /\ pc = "ready"
    /\ questionState = Null
    /\ moduleConfig = Null
    /\ now = 0
    /\ status = NotCalled
    /\ answerHistory = <<>>
    /\ userAddress = NoAddress
    /\ claimable = <<>>
    /\ totalClaimable = 0
    /\ claimArrays = NotCalled
    /\ tasks = EmptyBag
    /\ chainHead = 2 * BlockStep
    /\ provider = "rpc"
    /\ pollTimer = FALSE
    /\ rpcFailureHandler = TRUE
    /\ rpcFailoverInProgress = FALSE
    /\ settings = NoSettings
    /\ proposals = {}
    /\ answers = {}
    /\ allProposals = {}
    /\ questionStates = <<>>
    /\ NoCalls

NextDecode ==
    \/ ScanProposalsToHead
    \/ \E k \in Running : IndexReturn(k)

SpecDecode == InitDecode /\ [][NextDecode]_vars

-----------------------------------------------------------------------------
(* The records under the range syncs of app.js: the first backfill, which    *)
(* sets the watermark, and maybeExpandBackfillCoverage, which extends the   *)
(* indexed range downwards.  A sync is one step here.                       *)

\* How the loop body of scanProposalsInRange can go for one log: the decode
\* outcomes, and the decode or the put throwing into the catch block.
LogOutcomes ==
    DecodeOutcomes \cup {[getTransaction |-> TRUE, buildQuestion |-> TRUE,
                          getBlock |-> TRUE, dbPut |-> FALSE]}
caught(outcome) == "dbPut" \in DOMAIN outcome /\ ~outcome.dbPut

\* backfillProposalsRange(provider, fromBlock, toBlock) on the records: the
\* stores and the settings after it, for the given outcomes per log; scanDone:
\* getLogsChunked went through for the proposals, indexDone: for the answers.
backfillProposalsRange(fromBlock, toBlock, rpc, scanDone, indexDone) ==
    LET logs == getLogs("ProposalQuestionCreated", fromBlock, toBlock)
        pushed == SelectSeq([i \in 1..Len(logs) |-> [log |-> logs[i], rpc |-> rpc[i]]],
                            LAMBDA x : ~caught(x.rpc))
        found == [i \in 1..Len(pushed) |->
                     decodeProposalFromLog(pushed[i].log, pushed[i].rpc)]
        answerLogs == getLogs("LogNewAnswer", fromBlock, toBlock)
        earliest == settings.earliestIndexedBlock
    IN  [proposals |-> IF scanDone THEN dbPutAll(proposals, "questionId", found)
                       ELSE proposals,
         answers |-> IF scanDone /\ indexDone
                     THEN dbPutAll(answers, "id",
                              [i \in 1..Len(answerLogs) |-> indexedAnswer(answerLogs[i])])
                     ELSE answers,
         settings |-> IF scanDone /\ indexDone
                      THEN [settings EXCEPT
                               !.earliestIndexedBlock =
                                   IF earliest = UnsetBlock THEN fromBlock
                                   ELSE Min(earliest, fromBlock),
                               !.lastProcessedBlock =
                                   Max(NumberOrZero(settings.lastProcessedBlock), toBlock)]
                      ELSE settings,
         found |-> IF scanDone /\ indexDone
                   THEN {found[i].questionId : i \in 1..Len(found)} ELSE {},
         ok |-> scanDone /\ indexDone]

\* The outcomes of the creation logs of a range.
RangeOutcomes(fromBlock, toBlock, Outcomes) ==
    [1..Len(getLogs("ProposalQuestionCreated", fromBlock, toBlock)) -> Outcomes]

\* runBackfill with no watermark stored: the range from the estimated block
\* to the head; then the question states, answerCacheReady and the mirror.
runBackfill(Outcomes) ==
    /\ Idle
    /\ NumberOrZero(settings.lastProcessedBlock) = 0
    /\ \E fromBlock \in RangeBlocks, scanDone \in BOOLEAN, indexDone \in BOOLEAN :
          /\ fromBlock <= chainHead
          /\ \E rpc \in RangeOutcomes(fromBlock, chainHead, Outcomes) :
                LET sync == backfillProposalsRange(fromBlock, chainHead, rpc,
                                                   scanDone, indexDone)
                IN  /\ proposals' = sync.proposals
                    /\ answers' = sync.answers
                    /\ settings' = [sync.settings EXCEPT !.answerCacheReady =
                                       sync.ok \/ settings.answerCacheReady]
                    /\ questionStates' \in IF sync.ok
                                           THEN loadAllQuestionStates(sync.found)
                                           ELSE {questionStates}
                    /\ allProposals' = IF sync.ok THEN sync.proposals ELSE allProposals
                    /\ tasks' = Spawn(tasks,
                                   [IndexCall("runBackfill", fromBlock, chainHead,
                                              EmptyId, <<>>)
                                       EXCEPT !.pc = IF sync.ok THEN "returning"
                                                     ELSE "throwing"])
    /\ UNCHANGED <<pc, statusVars, claimVars, callVars, chainHead, provider, pollTimer,
                   rpcFailureHandler, rpcFailoverInProgress>>

\* maybeExpandBackfillCoverage with earliestIndexedBlock stored and above the
\* desired start: the range desiredStart .. earliest - 1; the question states
\* of the proposals found and the mirror, when any was found.
RecordsExpand ==
    /\ Idle
    /\ settings.earliestIndexedBlock # UnsetBlock
    /\ \E desiredStart \in RangeBlocks, scanDone \in BOOLEAN, indexDone \in BOOLEAN :
          /\ desiredStart < settings.earliestIndexedBlock
          /\ \E rpc \in RangeOutcomes(desiredStart, settings.earliestIndexedBlock - 1,
                                      DecodeOutcomes) :
                LET toBlock == settings.earliestIndexedBlock - 1
                    sync == backfillProposalsRange(desiredStart, toBlock, rpc,
                                                   scanDone, indexDone)
                IN  /\ proposals' = sync.proposals
                    /\ answers' = sync.answers
                    /\ settings' = sync.settings
                    /\ questionStates' \in loadAllQuestionStates(sync.found)
                    /\ allProposals' = IF sync.found # {} THEN sync.proposals
                                       ELSE allProposals
                    /\ tasks' = Spawn(tasks,
                                   [IndexCall("maybeExpandBackfillCoverage",
                                              desiredStart, toBlock, EmptyId, <<>>)
                                       EXCEPT !.pc = IF sync.ok THEN "returning"
                                                     ELSE "throwing"])
    /\ UNCHANGED <<pc, statusVars, claimVars, callVars, chainHead, provider, pollTimer,
                   rpcFailureHandler, rpcFailoverInProgress>>

\* Every put of the scan goes through.
RecordsBackfill == runBackfill(DecodeOutcomes)

NextExpand ==
    \/ NewBlocks
    \/ RecordsBackfill
    \/ RecordsExpand
    \/ \E k \in Running : IndexReturn(k)

SpecExpand == InitIndex /\ [][NextExpand]_vars

-----------------------------------------------------------------------------
(* The first backfill on a chain of two creation logs, with the loop body of *)
(* scanProposalsInRange free to throw.                                       *)

RecordsBackfillCaught == runBackfill(LogOutcomes)

NextWatermark ==
    \/ RecordsBackfillCaught
    \/ \E k \in Running : IndexReturn(k)

SpecWatermark == InitDecode /\ [][NextWatermark]_vars

-----------------------------------------------------------------------------
(* reality.js loadQuestionState and its two batch callers in app.js,         *)
(* loadAllQuestionStates and refreshActiveQuestionStates, on whole records.  *)
(* realitio gives what the contract answers for each question id; the chain  *)
(* does not move while a batch runs.                                         *)

ListedQuestions == {"0xq1", "0xq2"}
Reverts == "reverts"

\* realitio.questions(questionId) of a question nobody answered yet.
OpenQuestion ==
    [content_hash |-> "0xc0", arbitrator |-> "0xa0", opening_ts |-> 0, timeout |-> 1,
     finalize_ts |-> 0, is_pending_arbitration |-> FALSE, bounty |-> 0,
     best_answer |-> ZeroHash, history_hash |-> ZeroHash, bond |-> 0, min_bond |-> 0]
AnsweredQuestion ==
    [OpenQuestion EXCEPT !.finalize_ts = 1, !.best_answer = ANSWER_YES,
                         !.history_hash = "0xh1", !.bond = 1]

\* What the contract answers for one question: questions(), isFinalized() and
\* getFinalAnswer(), which reverts for a question that is not finalized and
\* for one finalized with no bond.
OnChainQuestions ==
    {[questions |-> OpenQuestion, isFinalized |-> FALSE, getFinalAnswer |-> Reverts],
     [questions |-> [OpenQuestion EXCEPT !.bounty = 1],
      isFinalized |-> FALSE, getFinalAnswer |-> Reverts],
     [questions |-> [OpenQuestion EXCEPT !.min_bond = 1],
      isFinalized |-> FALSE, getFinalAnswer |-> Reverts],
     [questions |-> AnsweredQuestion, isFinalized |-> FALSE, getFinalAnswer |-> Reverts],
     [questions |-> [AnsweredQuestion EXCEPT !.is_pending_arbitration = TRUE],
      isFinalized |-> FALSE, getFinalAnswer |-> Reverts],
     [questions |-> AnsweredQuestion, isFinalized |-> TRUE, getFinalAnswer |-> ANSWER_YES],
     [questions |-> [OpenQuestion EXCEPT !.finalize_ts = 1],
      isFinalized |-> TRUE, getFinalAnswer |-> Reverts]}

\* The state record loadQuestionState builds from q, finalized and finalAnswer.
questionStateRecord(questionId, q, finalized, finalAnswer) ==
    [questionId |-> questionId,
     contentHash |-> q.content_hash,
     arbitrator |-> q.arbitrator,
     openingTs |-> q.opening_ts,
     timeout |-> q.timeout,
     finalizeTs |-> q.finalize_ts,
     isPendingArbitration |-> q.is_pending_arbitration,
     bounty |-> toString(q.bounty),
     bestAnswer |-> q.best_answer,
     historyHash |-> q.history_hash,
     bond |-> toString(q.bond),
     minBond |-> toString(q.min_bond),
     isFinalized |-> finalized,
     finalAnswer |-> finalAnswer]

\* The record a load that went through stores for a question that answers c.
loadedState(questionId, c) ==
    questionStateRecord(questionId, c.questions, c.isFinalized,
        IF c.isFinalized /\ c.getFinalAnswer # Reverts THEN c.getFinalAnswer
        ELSE NullValue)

\* hasQuestionStateChanged comparing the whole records.
hasQuestionStateChanged_anyField(prev, next) == prev = Null \/ next = Null \/ prev # next

\* hasQuestionStateChanged(prev, next); Null stands for a missing state.
hasQuestionStateChanged(prev, next) ==
    \/ prev = Null \/ next = Null
    \/ prev.bestAnswer # next.bestAnswer
    \/ prev.bond # next.bond
    \/ prev.finalizeTs # next.finalizeTs
    \/ prev.isFinalized # next.isFinalized
    \/ prev.finalAnswer # next.finalAnswer
    \/ prev.isPendingArbitration # next.isPendingArbitration
    \/ prev.historyHash # next.historyHash
    \/ prev.minBond # next.minBond

\* The frame of a batch over the question ids of list.  batch, failed and
\* before keep what the batch was called with, which loads threw, and
\* questionStates as it was when the batch started.
QuestionCall(kind, list) ==
    [kind |-> kind, pc |-> IF list = <<>> THEN "returned" ELSE "questions",
     queue |-> list, batch |-> list, failed |-> {}, before |-> questionStates,
     q |-> Null, finalized |-> FALSE, finalAnswer |-> NullValue, state |-> Null,
     updates |-> 0, notified |-> FALSE]

\* The proposals handed to loadAllQuestionStates: some of the listed ones.
ProposalLists ==
    {SelectSeq(allProposals, LAMBDA p : p.questionId \in ids) :
        ids \in SUBSET ListedQuestions \ {{}}}

questionIdsOf(list) == [i \in 1..Len(list) |-> list[i].questionId]

\* await loadAllQuestionStates(newProposals), called with new proposals only.
LoadAllQuestionStates ==
    /\ Idle
    /\ \E list \in ProposalLists :
          tasks' = Spawn(tasks, QuestionCall("loadAllQuestionStates",
                                             questionIdsOf(list)))
    /\ UNCHANGED <<pc, statusVars, claimVars, callVars, questionStates, chainHead, provider,
                   pollTimer, rpcFailureHandler, rpcFailoverInProgress, storeVars>>

\* await refreshActiveQuestionStates(): 0 at once without provider or
\* proposals, else the loop over the active proposals.
RefreshActiveQuestionStates ==
    /\ Idle
    /\ LET active == SelectSeq(allProposals, LAMBDA p : isActive(p.questionId))
       IN  tasks' = Spawn(tasks,
                       QuestionCall("refreshActiveQuestionStates",
                           IF provider = "null" \/ allProposals = <<>> THEN <<>>
                           ELSE questionIdsOf(active)))
    /\ UNCHANGED <<pc, statusVars, claimVars, callVars, questionStates, chainHead, provider,
                   pollTimer, rpcFailureHandler, rpcFailoverInProgress, storeVars>>

\* The loop moves to its next question.
nextQuestion(k) ==
    [k EXCEPT !.queue = Tail(@),
              !.pc = IF Len(k.queue) = 1 THEN "returned" ELSE "questions",
              !.q = Null, !.finalized = FALSE, !.finalAnswer = NullValue,
              !.state = Null]

\* A catch block that rethrows: the batch ends at the first failed load.
skipQuestion_abortsBatch(k) == [nextQuestion(k) EXCEPT !.failed = @ \cup {Head(k.queue)}, !.queue = <<>>, !.pc = "throwing"]

\* The catch block of the loop: a warning, and on to the next question.
skipQuestion(k) == [nextQuestion(k) EXCEPT !.failed = @ \cup {Head(k.queue)}]

\* loadQuestionState: q = await realitio.questions(questionId), or it throws.
LqsQuestions(k) ==
    /\ k.pc = "questions"
    /\ \/ tasks' = Replace(tasks, k,
                       [k EXCEPT !.q = realitio[Head(k.queue)].questions,
                                 !.pc = "isFinalized"])
       \/ tasks' = Replace(tasks, k, skipQuestion(k))
    /\ UNCHANGED <<pc, statusVars, claimVars, callVars, questionStates, chainHead, provider,
                   pollTimer, rpcFailureHandler, rpcFailoverInProgress, storeVars>>

\* loadQuestionState: finalized = await realitio.isFinalized(questionId), or
\* it throws.
LqsIsFinalized(k) ==
    /\ k.pc = "isFinalized"
    /\ \/ LET finalized == realitio[Head(k.queue)].isFinalized
          IN  tasks' = Replace(tasks, k,
                          [k EXCEPT !.finalized = finalized,
                                    !.pc = IF finalized THEN "getFinalAnswer"
                                           ELSE "dbPut"])
       \/ tasks' = Replace(tasks, k, skipQuestion(k))
    /\ UNCHANGED <<pc, statusVars, claimVars, callVars, questionStates, chainHead, provider,
                   pollTimer, rpcFailureHandler, rpcFailoverInProgress, storeVars>>

\* A getFinalAnswer whose revert is thrown on to the caller.
LqsGetFinalAnswer_revertThrows(k) ==
    /\ k.pc = "getFinalAnswer"
    /\ LET answer == realitio[Head(k.queue)].getFinalAnswer
       IN  \/ /\ answer # Reverts
              /\ tasks' = Replace(tasks, k,
                              [k EXCEPT !.finalAnswer = answer, !.pc = "dbPut"])
           \/ tasks' = Replace(tasks, k, skipQuestion(k))
    /\ UNCHANGED <<pc, statusVars, claimVars, callVars, questionStates, chainHead, provider,
                   pollTimer, rpcFailureHandler, rpcFailoverInProgress, storeVars>>

\* loadQuestionState, finalized: finalAnswer = await getFinalAnswer(questionId);
\* a revert or a failed request is caught and leaves null.
LqsGetFinalAnswer(k) ==
    /\ k.pc = "getFinalAnswer"
    /\ LET answer == realitio[Head(k.queue)].getFinalAnswer
       IN  \/ /\ answer # Reverts
              /\ tasks' = Replace(tasks, k,
                              [k EXCEPT !.finalAnswer = answer, !.pc = "dbPut"])
           \/ tasks' = Replace(tasks, k,
                           [k EXCEPT !.finalAnswer = NullValue, !.pc = "dbPut"])
    /\ UNCHANGED <<pc, statusVars, claimVars, callVars, questionStates, chainHead, provider,
                   pollTimer, rpcFailureHandler, rpcFailoverInProgress, storeVars>>

\* loadQuestionState: await dbPut("questions_state", state) and return state,
\* or the put throws.
LqsDbPut(k) ==
    /\ k.pc = "dbPut"
    /\ LET state == questionStateRecord(Head(k.queue), k.q, k.finalized, k.finalAnswer)
       IN  \/ /\ questions_state' = questionStatesSet(questions_state, Head(k.queue),
                                                      state)
              /\ tasks' = Replace(tasks, k, [k EXCEPT !.state = state, !.pc = "loaded"])
           \/ /\ UNCHANGED questions_state
              /\ tasks' = Replace(tasks, k, skipQuestion(k))
    /\ UNCHANGED <<pc, statusVars, claimVars, retry, chain, estimate, bundle,
                   proposalTxHashes, verified, intervals, realitio, endpoints,
                   execution, questionStates, chainHead, provider, pollTimer,
                   rpcFailureHandler, rpcFailoverInProgress, storeVars>>

\* loadAllQuestionStates after its await: questionStates.set(questionId, state).
LoadAllSet(k) ==
    /\ k.kind = "loadAllQuestionStates"
    /\ k.pc = "loaded"
    /\ questionStates' = questionStatesSet(questionStates, Head(k.queue), k.state)
    /\ tasks' = Replace(tasks, k, nextQuestion(k))
    /\ UNCHANGED <<pc, statusVars, claimVars, callVars, chainHead, provider,
                   pollTimer, rpcFailureHandler, rpcFailoverInProgress, storeVars>>

\* refreshActiveQuestionStates after its await: prev is read, a changed state
\* is counted, and next is set.
RefreshCount(k) ==
    /\ k.kind = "refreshActiveQuestionStates"
    /\ k.pc = "loaded"
    /\ LET questionId == Head(k.queue)
           prev == IF questionId \in DOMAIN questionStates
                   THEN questionStates[questionId] ELSE Null
           counted == IF hasQuestionStateChanged(prev, k.state)
                      THEN k.updates + 1 ELSE k.updates
       IN  /\ questionStates' = questionStatesSet(questionStates, questionId, k.state)
           /\ tasks' = Replace(tasks, k, [nextQuestion(k) EXCEPT !.updates = counted])
    /\ UNCHANGED <<pc, statusVars, claimVars, callVars, chainHead, provider,
                   pollTimer, rpcFailureHandler, rpcFailoverInProgress, storeVars>>

\* The batch has returned to runIncrementalSync with no new proposals: with
\* stateUpdates > 0 loadCachedData reads the stores again and connectRPC
\* shows the toast of the updated states.
SyncNotify(k) ==
    /\ k.pc = "returned"
    /\ LET notify == k.kind = "refreshActiveQuestionStates" /\ k.updates > 0
       IN  /\ questionStates' = IF notify THEN questions_state ELSE questionStates
           /\ tasks' = Replace(tasks, k, [k EXCEPT !.pc = "done", !.notified = notify])
    /\ UNCHANGED <<pc, statusVars, claimVars, callVars, chainHead, provider,
                   pollTimer, rpcFailureHandler, rpcFailoverInProgress, storeVars>>

\* The caller is through with the batch.
QuestionCallEnds(k) ==
    /\ k.pc \in {"done", "throwing"}
    /\ tasks' = tasks (-) SetToBag({k})
    /\ UNCHANGED <<pc, statusVars, claimVars, callVars, questionStates, chainHead, provider,
                   pollTimer, rpcFailureHandler, rpcFailoverInProgress, storeVars>>

\* The states that can be cached for the question ids of D.
CachedStates(D) ==
    {[questionId \in D |-> loadedState(questionId, c[questionId])] :
        c \in [D -> OnChainQuestions]}

\* Two proposals are listed; any of them has a state cached from an earlier
\* load, and the chain has any answer for each.
InitQuestion ==
    /\ pc = "ready"
    /\ questionState = Null
    /\ moduleConfig = Null
    /\ now = 0
    /\ status = NotCalled
    /\ answerHistory = <<>>
    /\ userAddress = NoAddress
    /\ claimable = <<>>
    /\ totalClaimable = 0
    /\ claimArrays = NotCalled
    /\ tasks = EmptyBag
    /\ chainHead = BlockStep
    /\ provider = "rpc"
    /\ pollTimer = FALSE
    /\ rpcFailureHandler = TRUE
    /\ rpcFailoverInProgress = FALSE
    /\ settings = NoSettings
    /\ proposals = {}
    /\ answers = {}
    /\ allProposals = <<[questionId |-> "0xq1"], [questionId |-> "0xq2"]>>
    /\ retry = NoRetry /\ chain = NoChain /\ estimate = NoEstimate /\ NoVerify
    /\ intervals = NoIntervals /\ realitio \in [ListedQuestions -> OnChainQuestions]
    /\ questions_state \in UNION {CachedStates(D) : D \in SUBSET ListedQuestions}
    /\ questionStates = questions_state
    /\ endpoints = NoEndpoints
    /\ execution = NoExecution

NextQuestion ==
    \/ LoadAllQuestionStates
    \/ RefreshActiveQuestionStates
    \/ \E k \in Running : LqsQuestions(k)
    \/ \E k \in Running : LqsIsFinalized(k)
    \/ \E k \in Running : LqsGetFinalAnswer(k)
    \/ \E k \in Running : LqsDbPut(k)
    \/ \E k \in Running : LoadAllSet(k)
    \/ \E k \in Running : RefreshCount(k)
    \/ \E k \in Running : SyncNotify(k)
    \/ \E k \in Running : QuestionCallEnds(k)

SpecQuestion == InitQuestion /\ [][NextQuestion]_vars

-----------------------------------------------------------------------------
(* indexer.js: withRetry, one call on its own.  fn is an RPC request; each   *)
(* attempt resolves with a value or rejects with an error.  The backoff      *)
(* sleep between two attempts only passes time.  The registered handler is   *)
(* app.js handleRpcFailure.                                                  *)

\* export const MAX_RETRIES = 3
MAX_RETRIES == 3

\* What an RPC request resolves with, and what it rejects with.
RpcValues == {"value1", "value2"}
RpcErrors == {"timeout", "rateLimited"}

\* for (let i = 0; i <= retries; i++): one attempt too many.
retryLoopContinues_inclusive(i, retries) == i <= retries

\* for (let i = 0; i < retries; i++)
retryLoopContinues(i, retries) == i < retries

\* withRetry(fn) entered: i = 0, lastErr undefined.  attempts counts the calls
\* of fn; handled lists the arguments the failure handler was invoked with;
\* handler is where that invocation stands.
EnterRetry ==
    [pc |-> IF retryLoopContinues(0, MAX_RETRIES) THEN "attempt" ELSE "exhausted",
     i |-> 0, lastErr |-> "undefined", attempts |-> 0, resolved |-> "none",
     handled |-> <<>>, handler |-> "idle", outcome |-> "pending",
     value |-> "none"]

\* The loop head after iteration i: i++ and the test of the for statement.
retryNext(r) ==
    [r EXCEPT !.i = r.i + 1,
              !.pc = IF retryLoopContinues(r.i + 1, MAX_RETRIES)
                     THEN "attempt" ELSE "exhausted"]

\* return await fn(): the attempt resolves and withRetry returns its value.
RetryAttemptOk ==
    /\ retry.pc = "attempt"
    /\ \E v \in RpcValues :
          retry' = [retry EXCEPT !.pc = "returned", !.attempts = @ + 1,
                                 !.resolved = v, !.outcome = "returned",
                                 !.value = v]
    /\ UNCHANGED <<pc, statusVars, claimVars, sessionVars, chain, estimate, bundle,
                   proposalTxHashes, verified, intervals,
                   detailVars>>

\* The attempt rejects: lastErr = err; all but the last attempt sleep before
\* the next one.
RetryAttemptFail ==
    /\ retry.pc = "attempt"
    /\ \E e \in RpcErrors :
          LET r == [retry EXCEPT !.lastErr = e, !.attempts = @ + 1]
          IN  retry' = IF r.i < MAX_RETRIES - 1
                       THEN [r EXCEPT !.pc = "sleeping"]
                       ELSE retryNext(r)
    /\ UNCHANGED <<pc, statusVars, claimVars, sessionVars, chain, estimate, bundle,
                   proposalTxHashes, verified, intervals,
                   detailVars>>

\* await sleep(...) is over.
RetryWake ==
    /\ retry.pc = "sleeping"
    /\ retry' = retryNext(retry)
    /\ UNCHANGED <<pc, statusVars, claimVars, sessionVars, chain, estimate, bundle,
                   proposalTxHashes, verified, intervals,
                   detailVars>>

\* The loop is left with no handler registered: throw lastErr.
RetryThrowUnhandled ==
    /\ retry.pc = "exhausted"
    /\ ~rpcFailureHandler
    /\ retry' = [retry EXCEPT !.pc = "thrown", !.outcome = "thrown",
                              !.value = retry.lastErr]
    /\ UNCHANGED <<pc, statusVars, claimVars, sessionVars, chain, estimate, bundle,
                   proposalTxHashes, verified, intervals,
                   detailVars>>

\* await _rpcFailureHandler(lastErr), handleRpcFailure up to its first await:
\* it returns at once while another failover is running or when the user names
\* no other endpoint, it may throw (loadSettings, saveSettings), or it calls
\* stopPolling() and awaits connectRPC(nextRpc).  Its finally block clears the
\* flag it set.
RetryHandlerCall ==
    /\ retry.pc = "exhausted"
    /\ rpcFailureHandler
    /\ LET r == [retry EXCEPT !.handled = Append(@, retry.lastErr)]
       IN  IF rpcFailoverInProgress
           THEN /\ retry' = [r EXCEPT !.pc = "handler_left", !.handler = "returned"]
                /\ UNCHANGED <<rpcFailoverInProgress, pollTimer, provider>>
           ELSE \/ /\ retry' = [r EXCEPT !.pc = "handler_left", !.handler = "returned"]
                   /\ UNCHANGED <<rpcFailoverInProgress, pollTimer, provider>>
                \/ /\ retry' = [r EXCEPT !.pc = "handler_left", !.handler = "threw"]
                   /\ UNCHANGED <<rpcFailoverInProgress, pollTimer, provider>>
                \/ /\ retry' = [r EXCEPT !.pc = "handler_await", !.handler = "switching"]
                   /\ rpcFailoverInProgress' = TRUE
                   /\ pollTimer' = FALSE
                   /\ provider' = "rpc"
    /\ UNCHANGED <<pc, statusVars, claimVars, tasks, chainHead, rpcFailureHandler,
                   storeVars, questionStates, chain, estimate, bundle,
                   proposalTxHashes, verified, intervals,
                   detailVars>>

\* connectRPC(nextRpc) is over (it catches its own errors and then leaves the
\* provider null); the finally block clears the flag and the handler returns.
RetryHandlerResume ==
    /\ retry.pc = "handler_await"
    /\ retry' = [retry EXCEPT !.pc = "handler_left", !.handler = "switched"]
    /\ rpcFailoverInProgress' = FALSE
    /\ \E p \in {"rpc", "null"} : provider' = p
    /\ \E t \in BOOLEAN : pollTimer' = (t /\ provider' = "rpc")
    /\ UNCHANGED <<pc, statusVars, claimVars, tasks, chainHead, rpcFailureHandler,
                   storeVars, questionStates, chain, estimate, bundle,
                   proposalTxHashes, verified, intervals,
                   detailVars>>

\* After the handler (its own error is caught and logged): throw lastErr.
RetryThrow ==
    /\ retry.pc = "handler_left"
    /\ retry' = [retry EXCEPT !.pc = "thrown", !.outcome = "thrown",
                              !.value = retry.lastErr]
    /\ UNCHANGED <<pc, statusVars, claimVars, sessionVars, chain, estimate, bundle,
                   proposalTxHashes, verified, intervals,
                   detailVars>>

InitRetry ==
    /\ pc = "ready"
    /\ questionState = Null
    /\ moduleConfig = Null
    /\ now = 0
    /\ status = NotCalled
    /\ answerHistory = <<>>
    /\ userAddress = NoAddress
    /\ claimable = <<>>
    /\ totalClaimable = 0
    /\ claimArrays = NotCalled
    /\ tasks = EmptyBag
    /\ chainHead = 0
    /\ provider = "rpc"
    /\ pollTimer \in BOOLEAN
    /\ rpcFailureHandler \in BOOLEAN
    /\ rpcFailoverInProgress \in BOOLEAN
    /\ settings = NoSettings
    /\ proposals = {}
    /\ answers = {}
    /\ allProposals = {}
    /\ questionStates = <<>>
    /\ retry = EnterRetry
    /\ chain = NoChain
    /\ estimate = NoEstimate
    /\ NoVerify
    /\ intervals = NoIntervals
    /\ NoDetail

NextRetry ==
    \/ RetryAttemptOk
    \/ RetryAttemptFail
    \/ RetryWake
    \/ RetryThrowUnhandled
    \/ RetryHandlerCall
    \/ RetryHandlerResume
    \/ RetryThrow

\* The event loop runs every continuation that is ready, and every request
\* and every dialog ends.
SpecRetry == InitRetry /\ [][NextRetry]_vars /\ WF_vars(NextRetry)

-----------------------------------------------------------------------------
(* indexer.js: estimateBlockFromTime, one call on its own.  The chain gives  *)
(* block b the timestamp genesis + interval * b, plus gap from block gapAt   *)
(* on; a sparse provider may answer null to getBlock(number).                *)

\* export const SECONDS_PER_DAY = 86400
SECONDS_PER_DAY == 86400
\* export const DEFAULT_BACKFILL_DAYS = 7
DEFAULT_BACKFILL_DAYS == 7
\* Quick estimate assuming ~12s blocks on mainnet
NominalBlockSeconds == 12
\* for (let i = 0; i < 15; i++)
SearchIterations == 15

blockTimestamp(c, b) ==
    c.genesis + c.interval * b + (IF b >= c.gapAt THEN c.gap ELSE 0)

Chains ==
    [genesis : {1000}, interval : {12}, gapAt : {0}, gap : {0, 5},
     sparse : {FALSE}]
    \cup [genesis : {1000}, interval : {2, 13}, gapAt : {0}, gap : {0},
          sparse : {FALSE}]
    \cup [genesis : {1000}, interval : {12}, gapAt : {4000}, gap : {0, 600},
          sparse : {TRUE}]

HeadNumbers == {5000, 120000, 120007}

SecondsAgoValues ==
    {0, 3600, SECONDS_PER_DAY, DEFAULT_BACKFILL_DAYS * SECONDS_PER_DAY}

\* Math.ceil(secondsAgo / 12)
estimatedBlocks(secondsAgo) ==
    (secondsAgo + NominalBlockSeconds - 1) \div NominalBlockSeconds

\* Math.max(0, latest.number - estimatedBlocks)
initialLo_noMargin(latestNumber, secondsAgo) ==
    Max(0, latestNumber - estimatedBlocks(secondsAgo))

\* Math.max(0, latest.number - estimatedBlocks * 2)
initialLo(latestNumber, secondsAgo) ==
    Max(0, latestNumber - estimatedBlocks(secondsAgo) * 2)

\* estimateBlockFromTime(provider, secondsAgo) entered.  lo0 keeps the first
\* lower bound, lookup what the last getBlock(mid) resolved with.
EnterEstimate(secondsAgo) ==
    [pc |-> "latest", secondsAgo |-> secondsAgo, targetTs |-> 0, lo |-> 0,
     hi |-> 0, lo0 |-> 0, i |-> 0, lookup |-> "none", result |-> UnsetBlock]

\* getBlock("latest") resolved: targetTs, lo and hi are set.
EstimateLatest ==
    /\ estimate.pc = "latest"
    /\ estimate' =
          [estimate EXCEPT
              !.pc = "loop",
              !.targetTs = blockTimestamp(chain, chainHead) - estimate.secondsAgo,
              !.lo = initialLo(chainHead, estimate.secondsAgo),
              !.lo0 = initialLo(chainHead, estimate.secondsAgo),
              !.hi = chainHead]
    /\ UNCHANGED <<pc, statusVars, claimVars, sessionVars, retry, chain, bundle,
                   proposalTxHashes, verified, intervals,
                   detailVars>>

\* for (let i = 0; i < 10; i++): too few iterations for a day of blocks.
searchContinues_tenIterations(e) == e.i < 10 /\ e.lo < e.hi

\* The loop goes on when i < 15 and lo < hi.
searchContinues(e) == e.i < SearchIterations /\ e.lo < e.hi

\* if (!block) continue: the same range is tried again.
narrowOnNull_sameRange(e, mid) == [e EXCEPT !.i = @ + 1, !.lookup = "null"]

\* if (!block) { lo = mid + 1; continue; }
narrowOnNull(e, mid) == [e EXCEPT !.lo = mid + 1, !.i = @ + 1, !.lookup = "null"]

\* One iteration whose getBlock(mid) resolved with a block.
EstimateProbe ==
    /\ estimate.pc = "loop"
    /\ searchContinues(estimate)
    /\ LET mid == (estimate.lo + estimate.hi) \div 2
       IN  estimate' =
              IF blockTimestamp(chain, mid) < estimate.targetTs
              THEN [estimate EXCEPT !.lo = mid + 1, !.i = @ + 1,
                                    !.lookup = "block"]
              ELSE [estimate EXCEPT !.hi = mid, !.i = @ + 1, !.lookup = "block"]
    /\ UNCHANGED <<pc, statusVars, claimVars, sessionVars, retry, chain, bundle,
                   proposalTxHashes, verified, intervals,
                   detailVars>>

\* One iteration whose getBlock(mid) resolved with null: lo = mid + 1; continue.
EstimateProbeNull ==
    /\ estimate.pc = "loop"
    /\ searchContinues(estimate)
    /\ chain.sparse
    /\ LET mid == (estimate.lo + estimate.hi) \div 2
       IN  estimate' = narrowOnNull(estimate, mid)
    /\ UNCHANGED <<pc, statusVars, claimVars, sessionVars, retry, chain, bundle,
                   proposalTxHashes, verified, intervals,
                   detailVars>>

\* The loop is left: return lo.
EstimateReturn ==
    /\ estimate.pc = "loop"
    /\ ~searchContinues(estimate)
    /\ estimate' = [estimate EXCEPT !.pc = "returned", !.result = estimate.lo]
    /\ UNCHANGED <<pc, statusVars, claimVars, sessionVars, retry, chain, bundle,
                   proposalTxHashes, verified, intervals,
                   detailVars>>

\* A getBlock request is rejected until withRetry gives up: the call throws.
EstimateThrow ==
    /\ \/ estimate.pc = "latest"
       \/ estimate.pc = "loop" /\ searchContinues(estimate)
    /\ estimate' = [estimate EXCEPT !.pc = "thrown"]
    /\ UNCHANGED <<pc, statusVars, claimVars, sessionVars, retry, chain, bundle,
                   proposalTxHashes, verified, intervals,
                   detailVars>>

InitEstimate ==
    /\ pc = "ready"
    /\ questionState = Null
    /\ moduleConfig = Null
    /\ now = 0
    /\ status = NotCalled
    /\ answerHistory = <<>>
    /\ userAddress = NoAddress
    /\ claimable = <<>>
    /\ totalClaimable = 0
    /\ claimArrays = NotCalled
    /\ tasks = EmptyBag
    /\ chainHead \in HeadNumbers
    /\ provider = "rpc"
    /\ pollTimer = FALSE
    /\ rpcFailureHandler = FALSE
    /\ rpcFailoverInProgress = FALSE
    /\ settings = NoSettings
    /\ proposals = {}
    /\ answers = {}
    /\ allProposals = {}
    /\ questionStates = <<>>
    /\ retry = NoRetry
    /\ chain \in Chains
    /\ \E s \in SecondsAgoValues : estimate = EnterEstimate(s)
    /\ NoVerify
    /\ intervals = NoIntervals
    /\ NoDetail

NextEstimate ==
    \/ EstimateLatest
    \/ EstimateProbe
    \/ EstimateProbeNull
    \/ EstimateReturn
    \/ EstimateThrow

SpecEstimate == InitEstimate /\ [][NextEstimate]_vars

-----------------------------------------------------------------------------
(* execute.js: verifyTxBundle.  A transaction hash is a pair <<hash,         *)
(* spelling>> like an address: spelling 0 is the lower-case hex string.      *)

MaxHashes == 2

TxHashes == {"h1", "h2"} \X {0, 1}
HashLists == UNION {[1..n -> TxHashes] : n \in 0..MaxHashes}

\* bundle.txHashes[i].toLowerCase() !== proposalTxHashes[i].toLowerCase()
\* for the i-th entries (counted from 1).
hashesDiffer(bundleHashes, proposalHashes, i) ==
    toLowerCase(bundleHashes[i]) # toLowerCase(proposalHashes[i])

\* The first i of the for loop whose test holds, counted from 1; 0 when the
\* loop runs to its end.
firstMismatch(bundleHashes, proposalHashes) ==
    LET D == {i \in 1..Len(bundleHashes) :
                  hashesDiffer(bundleHashes, proposalHashes, i)}
    IN  IF D = {} THEN 0 ELSE CHOOSE i \in D : \A j \in D : i <= j

\* bundle.txHashes[i] !== proposalTxHashes[i]: the spelling counts.
verifyTxBundle_caseSensitive(b, proposalHashes) ==
    IF Len(b.txHashes) # Len(proposalHashes)
    THEN [valid |-> FALSE,
          reason |-> [kind |-> "Hash count mismatch",
                      bundle |-> Len(b.txHashes), proposal |-> Len(proposalHashes)]]
    ELSE LET D == {i \in 1..Len(b.txHashes) : b.txHashes[i] # proposalHashes[i]}
             i == IF D = {} THEN 0 ELSE CHOOSE x \in D : \A j \in D : x <= j
         IN  IF i # 0
             THEN [valid |-> FALSE,
                   reason |-> [kind |-> "Hash mismatch at index", index |-> i - 1,
                               bundle |-> b.txHashes[i],
                               proposal |-> proposalHashes[i]]]
             ELSE [valid |-> TRUE, reason |-> [kind |-> "All hashes match"]]

\* The reason strings are records of their parts; the index is the JS one.
verifyTxBundle(b, proposalHashes) ==
    IF Len(b.txHashes) # Len(proposalHashes)
    THEN [valid |-> FALSE,
          reason |-> [kind |-> "Hash count mismatch",
                      bundle |-> Len(b.txHashes), proposal |-> Len(proposalHashes)]]
    ELSE LET i == firstMismatch(b.txHashes, proposalHashes)
         IN  IF i # 0
             THEN [valid |-> FALSE,
                   reason |-> [kind |-> "Hash mismatch at index", index |-> i - 1,
                               bundle |-> b.txHashes[i],
                               proposal |-> proposalHashes[i]]]
             ELSE [valid |-> TRUE, reason |-> [kind |-> "All hashes match"]]

InitVerify ==
    /\ pc = "ready"
    /\ questionState = Null
    /\ moduleConfig = Null
    /\ now = 0
    /\ status = NotCalled
    /\ answerHistory = <<>>
    /\ userAddress = NoAddress
    /\ claimable = <<>>
    /\ totalClaimable = 0
    /\ claimArrays = NotCalled
    /\ tasks = EmptyBag
    /\ chainHead = 0
    /\ provider = "null"
    /\ pollTimer = FALSE
    /\ rpcFailureHandler = FALSE
    /\ rpcFailoverInProgress = FALSE
    /\ settings = NoSettings
    /\ proposals = {}
    /\ answers = {}
    /\ allProposals = {}
    /\ questionStates = <<>>
    /\ retry = NoRetry
    /\ chain = NoChain
    /\ estimate = NoEstimate
    /\ \E h \in HashLists : bundle = [txHashes |-> h]
    /\ proposalTxHashes \in HashLists
    /\ verified = NotCalled
    /\ intervals = NoIntervals
    /\ NoDetail

\* verified = verifyTxBundle(bundle, proposal.txHashes)
VerifyTxBundle ==
    /\ pc = "ready"
    /\ verified' = verifyTxBundle(bundle, proposalTxHashes)
    /\ pc' = "done"
    /\ UNCHANGED <<statusVars, claimVars, sessionVars, retry, chain, estimate,
                   bundle, proposalTxHashes, intervals,
                   detailVars>>

NextVerify == VerifyTxBundle

SpecVerify == InitVerify /\ [][NextVerify]_vars

-----------------------------------------------------------------------------
(* app.js: renderTxBundle and executeTx.  bundle.transactions has one entry  *)
(* per bundle.txHashes (importTxBundle), so a button is named by the index   *)
(* of its transaction, counted from 0.                                       *)

\* The value of verified in renderTxBundle.
renderedVerification(b, proposalHashes) ==
    IF Len(proposalHashes) > 0
    THEN verifyTxBundle(b, proposalHashes)
    ELSE [valid |-> FALSE,
          reason |-> [kind |-> "No proposal txHashes to verify against"]]

\* renderTxBundle(bundle, proposal): the warning row, then one Execute button
\* per transaction, disabled while no wallet is connected.
RenderTxBundle ==
    /\ pc = "ready"
    /\ verified' = renderedVerification(bundle, proposalTxHashes)
    /\ execution' = [execution EXCEPT
                        !.warning = ~verified'.valid,
                        !.buttons = 0..(Len(bundle.txHashes) - 1),
                        !.enabled = execution.isConnected]
    /\ pc' = "rendered"
    /\ UNCHANGED <<statusVars, claimVars, sessionVars, retry, chain, estimate,
                   bundle, proposalTxHashes, intervals, realitio, questions_state,
                   endpoints>>

\* A click on an enabled Execute button: executeTx(proposal, bundle, txIndex)
\* asks for confirmation and calls executeProposalTx with proposal.txHashes.
ExecuteTx(txIndex) ==
    /\ pc = "rendered"
    /\ txIndex \in execution.buttons
    /\ execution.enabled
    /\ execution.isConnected
    /\ \E confirmed \in BOOLEAN :
          execution' = [execution EXCEPT
                           !.submitted = IF confirmed THEN @ \cup {txIndex} ELSE @]
    /\ UNCHANGED <<pc, statusVars, claimVars, sessionVars, retry, chain, estimate,
                   bundle, proposalTxHashes, verified, intervals, realitio,
                   questions_state, endpoints>>

\* A bundle was imported (a non-empty array) for the open proposal.
InitExecute ==
    /\ pc = "ready"
    /\ questionState = Null
    /\ moduleConfig = Null
    /\ now = 0
    /\ status = NotCalled
    /\ answerHistory = <<>>
    /\ userAddress = NoAddress
    /\ claimable = <<>>
    /\ totalClaimable = 0
    /\ claimArrays = NotCalled
    /\ tasks = EmptyBag
    /\ chainHead = 0
    /\ provider = "null"
    /\ pollTimer = FALSE
    /\ rpcFailureHandler = FALSE
    /\ rpcFailoverInProgress = FALSE
    /\ settings = NoSettings
    /\ proposals = {}
    /\ answers = {}
    /\ allProposals = {}
    /\ questionStates = <<>>
    /\ retry = NoRetry
    /\ chain = NoChain
    /\ estimate = NoEstimate
    /\ \E h \in HashLists : Len(h) > 0 /\ bundle = [txHashes |-> h]
    /\ proposalTxHashes \in HashLists
    /\ verified = NotCalled
    /\ intervals = NoIntervals
    /\ realitio = <<>>
    /\ questions_state = <<>>
    /\ endpoints = NoEndpoints
    /\ \E connected \in BOOLEAN :
          execution = [NoExecution EXCEPT !.isConnected = connected]

NextExecute ==
    \/ RenderTxBundle
    \/ \E txIndex \in 0..(MaxHashes - 1) : ExecuteTx(txIndex)

SpecExecute == InitExecute /\ [][NextExecute]_vars

\* C40: a sub-transaction of a bundle is offered for execution, and handed to
\* executeProposalTx, only when verifyTxBundle found the bundle valid against
\* the proposal's txHashes; a bundle that failed verification, or a proposal
\* without txHashes, offers none.
C40_ExecutionNeedsValidBundle ==
    pc = "rendered" /\ ~verified.valid =>
        /\ execution.enabled => execution.buttons = {}
        /\ execution.submitted = {}

-----------------------------------------------------------------------------
(* indexer.js startPolling / stopPolling and their callers in app.js, with   *)
(* the browser's interval timers told apart.  Here pollTimer is the handle   *)
(* in _pollTimer (0 for null, else the id setInterval returned) and          *)
(* intervals holds the ids of the timers that are live and the number of     *)
(* setInterval calls so far.  A connectRPC is one task from its first await  *)
(* to startPolling; what it scans in between does not touch the timers.      *)

MaxTimers == 3

\* stopPolling(): if (_pollTimer) { clearInterval(_pollTimer); _pollTimer = null; }
stopPolling(timer, ivs) ==
    IF timer # 0
    THEN [pollTimer |-> 0, intervals |-> [ivs EXCEPT !.live = @ \ {timer}]]
    ELSE [pollTimer |-> timer, intervals |-> ivs]

\* _pollTimer = setInterval(...): the browser hands out a fresh id.
setInterval(ivs) ==
    [pollTimer |-> ivs.created + 1,
     intervals |-> [live |-> ivs.live \cup {ivs.created + 1},
                    created |-> ivs.created + 1]]

\* startPolling without its first line: _pollTimer = setInterval(...) only.
startPolling_noStop(timer, ivs) == setInterval(ivs)

\* startPolling(): stopPolling(); _pollTimer = setInterval(...)
startPolling(timer, ivs) == setInterval(stopPolling(timer, ivs).intervals)

\* doSaveSettings (or init): stopPolling(), then connectRPC up to its first
\* await: stopPolling() again, the provider and the failure handler are set.
PollingConnect ==
    /\ CanSpawn
    /\ LET s == stopPolling(pollTimer, intervals)
           t == stopPolling(s.pollTimer, s.intervals)
       IN  /\ pollTimer' = t.pollTimer
           /\ intervals' = t.intervals
    /\ provider' = "rpc"
    /\ rpcFailureHandler' = TRUE
    /\ tasks' = Spawn(tasks, NewTask("connect", "connecting"))
    /\ UNCHANGED <<pc, statusVars, claimVars, chainHead, rpcFailoverInProgress,
                   storeVars, questionStates, retry, chain, estimate, bundle,
                   proposalTxHashes, verified,
                   detailVars>>

\* connectRPC went through: startPolling(provider, pollIntervalSec, ...).
PollingConnected(k) ==
    /\ k.pc \in {"connecting", "backfill_failed"}
    /\ intervals.created < MaxTimers
    /\ LET s == startPolling(pollTimer, intervals)
       IN  /\ pollTimer' = s.pollTimer
           /\ intervals' = s.intervals
    /\ tasks' = endTask(tasks, k)
    /\ UNCHANGED <<pc, statusVars, claimVars, chainHead, provider,
                   rpcFailureHandler, rpcFailoverInProgress, storeVars,
                   questionStates, retry, chain, estimate, bundle,
                   proposalTxHashes, verified,
                   detailVars>>

\* An error reaches the catch block of connectRPC: provider = null.
PollingConnectFail(k) ==
    /\ k.pc \in {"connecting", "sync_failed"}
    /\ k.kind = "connect"
    /\ provider' = "null"
    /\ tasks' = endTask(tasks, k)
    /\ UNCHANGED <<pc, statusVars, claimVars, chainHead, pollTimer, intervals,
                   rpcFailureHandler, rpcFailoverInProgress, storeVars,
                   questionStates, retry, chain, estimate, bundle,
                   proposalTxHashes, verified,
                   detailVars>>

\* A live interval fires: its callback calls fetchNewProposals.
PollingTick ==
    /\ intervals.live # {}
    /\ CanSpawn
    /\ tasks' = Spawn(tasks, NewTask("poll", "connecting"))
    /\ UNCHANGED <<pc, statusVars, claimVars, chainHead, provider, pollTimer,
                   intervals, rpcFailureHandler, rpcFailoverInProgress,
                   storeVars, questionStates, retry, chain, estimate, bundle,
                   proposalTxHashes, verified,
                   detailVars>>

\* The callback of a tick is over (its errors are caught and logged).
PollingTickDone(k) ==
    /\ k.kind = "poll"
    /\ k.pc \in {"connecting", "sync_failed", "backfill_failed"}
    /\ tasks' = endTask(tasks, k)
    /\ UNCHANGED <<pc, statusVars, claimVars, chainHead, provider, pollTimer,
                   intervals, rpcFailureHandler, rpcFailoverInProgress,
                   storeVars, questionStates, retry, chain, estimate, bundle,
                   proposalTxHashes, verified,
                   detailVars>>

\* withRetry gives up inside a task and handleRpcFailure switches endpoints:
\* stopPolling(), then await connectRPC(nextRpc), which calls stopPolling()
\* again.  inBackfill: the request was made by runBackfill, which catches
\* the error, so that connectRPC goes on.
PollingFailover(k) ==
    /\ k.pc = "connecting"
    /\ rpcFailureHandler
    /\ ~rpcFailoverInProgress
    /\ CanSpawn
    /\ rpcFailoverInProgress' = TRUE
    /\ LET s == stopPolling(pollTimer, intervals)
           t == stopPolling(s.pollTimer, s.intervals)
       IN  /\ pollTimer' = t.pollTimer
           /\ intervals' = t.intervals
    /\ provider' = "rpc"
    /\ \E inBackfill \in BOOLEAN :
          tasks' = Spawn(Replace(tasks, k,
                            [k EXCEPT !.pc = "failover_wait",
                                      !.flow = IF inBackfill /\ k.kind = "connect"
                                               THEN "backfill" ELSE "none"]),
                         [NewTask("connect", "connecting") EXCEPT !.failover = TRUE])
    /\ UNCHANGED <<pc, statusVars, claimVars, chainHead, rpcFailureHandler,
                   storeVars, questionStates, retry, chain, estimate, bundle,
                   proposalTxHashes, verified,
                   detailVars>>

\* handleRpcFailure after connectRPC: the finally block clears the flag and
\* withRetry throws the last error.
PollingFailoverReturn(k) ==
    /\ k.pc = "failover_return"
    /\ rpcFailoverInProgress' = FALSE
    /\ tasks' = Replace(tasks, k,
                    [k EXCEPT !.pc = IF k.flow = "backfill" THEN "backfill_failed"
                                     ELSE "sync_failed",
                              !.flow = "none"])
    /\ UNCHANGED <<pc, statusVars, claimVars, chainHead, provider, pollTimer,
                   intervals, rpcFailureHandler, storeVars, questionStates, retry,
                   chain, estimate, bundle, proposalTxHashes, verified,
                   detailVars>>

InitPolling ==
    /\ pc = "ready"
    /\ questionState = Null
    /\ moduleConfig = Null
    /\ now = 0
    /\ status = NotCalled
    /\ answerHistory = <<>>
    /\ userAddress = NoAddress
    /\ claimable = <<>>
    /\ totalClaimable = 0
    /\ claimArrays = NotCalled
    /\ tasks = EmptyBag
    /\ chainHead = 0
    /\ provider = "null"
    /\ pollTimer = 0
    /\ intervals = NoIntervals
    /\ NoDetail
    /\ rpcFailureHandler = FALSE
    /\ rpcFailoverInProgress = FALSE
    /\ settings = NoSettings
    /\ proposals = {}
    /\ answers = {}
    /\ allProposals = {}
    /\ questionStates = <<>>
    /\ retry = NoRetry
    /\ chain = NoChain
    /\ estimate = NoEstimate
    /\ NoVerify

NextPolling ==
    \/ PollingConnect
    \/ PollingTick
    \/ \E k \in Running : PollingConnected(k)
    \/ \E k \in Running : PollingConnectFail(k)
    \/ \E k \in Running : PollingTickDone(k)
    \/ \E k \in Running : PollingFailover(k)
    \/ \E k \in Running : PollingFailoverReturn(k)

SpecPolling == InitPolling /\ [][NextPolling]_vars

\* C39: whenever the polling timer is armed the session holds a non-null
\* provider, under every interleaving of concurrent connectRPC calls.
C39_ArmedTimerHasProvider == pollTimer # 0 => provider # "null"

-----------------------------------------------------------------------------
(* app.js: handleRpcFailure; indexer.js: withRetry's call of the handler *)

\* The RPC endpoints the user can name; "" is no URL and " " a blank entry.
Urls == {"a", "b", "c"}
Entered == Urls \cup {"", " "}

\* String.prototype.trim on the entries above.
trim(s) == IF s = " " THEN "" ELSE s

\* (settings.rpcFallback || currentFallbackUrl || "").trim()
configuredFallback(ep) ==
    trim(IF ep.rpcFallback # "" THEN ep.rpcFallback ELSE ep.currentFallbackUrl)

\* handleRpcFailure up to its first await: the guard, the two dialogs, the
\* saved settings and the flag as the finally block leaves it when the
\* function returns before connectRPC.  switchConfigured is the answer to
\* window.confirm, entered the answer to window.prompt.
handleRpcFailure_noGuard(inProgress, ep, switchConfigured, entered) ==
    LET offered == configuredFallback(ep) # ""
                   /\ configuredFallback(ep) # ep.currentRpcUrl
        nextRpc == IF offered /\ switchConfigured THEN configuredFallback(ep)
                   ELSE trim(entered)
    IN  IF nextRpc = "" \/ nextRpc = ep.currentRpcUrl
        THEN [rpcFailoverInProgress |-> FALSE, endpoints |-> ep,
              asked |-> TRUE, reconnect |-> FALSE]
        ELSE [rpcFailoverInProgress |-> TRUE,
              endpoints |-> [ep EXCEPT !.rpcUrl = nextRpc,
                                       !.rpcFallback = IF ep.currentRpcUrl # ""
                                                       THEN ep.currentRpcUrl
                                                       ELSE ep.rpcFallback],
              asked |-> TRUE, reconnect |-> TRUE]

handleRpcFailure(inProgress, ep, switchConfigured, entered) ==
    IF inProgress
    THEN [rpcFailoverInProgress |-> inProgress, endpoints |-> ep,
          asked |-> FALSE, reconnect |-> FALSE]
    ELSE handleRpcFailure_noGuard(inProgress, ep, switchConfigured, entered)

\* A task sends a request through withRetry (a refresh of the list).
RpcRequest ==
    /\ CanSpawn
    /\ provider # "null"
    /\ tasks' = Spawn(tasks, NewTask("refresh", "requesting"))
    /\ UNCHANGED <<pc, statusVars, claimVars, chainHead, provider, pollTimer,
                   rpcFailureHandler, rpcFailoverInProgress, storeVars,
                   questionStates, callVars>>

\* The request is answered; a reconnecting connectRPC goes on to
\* startPolling.
RpcAnswered(k) ==
    /\ k.pc \in {"requesting", "backfill_failed"}
    /\ k.pc = "backfill_failed" => k.kind = "connect"
    /\ IF k.kind = "connect"
       THEN /\ intervals.created < MaxTimers
            /\ LET s == startPolling(pollTimer, intervals)
               IN  /\ pollTimer' = s.pollTimer
                   /\ intervals' = s.intervals
       ELSE UNCHANGED <<pollTimer, intervals>>
    /\ tasks' = endTask(tasks, k)
    /\ UNCHANGED <<pc, statusVars, claimVars, chainHead, provider,
                   rpcFailureHandler, rpcFailoverInProgress, storeVars,
                   questionStates, retry, chain, estimate, bundle,
                   proposalTxHashes, verified, detailVars>>

\* withRetry gives up: await _rpcFailureHandler(lastErr), then throw lastErr.
\* A handler that reconnects runs stopPolling() and connectRPC(nextRpc,
\* nextSettings.rpcFallback) up to its first await; the caller waits for it.
\* inBackfill: the request of a connectRPC was made by runBackfill, which
\* catches the error.
RetriesExhausted(k) ==
    /\ k.pc = "requesting"
    /\ rpcFailureHandler
    /\ \E switchConfigured \in BOOLEAN, entered \in Entered, inBackfill \in BOOLEAN :
          LET h == handleRpcFailure(rpcFailoverInProgress, endpoints,
                                    switchConfigured, entered)
              reported == [k EXCEPT !.flow = IF inBackfill /\ k.kind = "connect"
                                             THEN "backfill" ELSE "none",
                                    !.filter = IF h.asked THEN "asked" ELSE "ignored"]
          IN  /\ rpcFailoverInProgress' = h.rpcFailoverInProgress
              /\ IF h.reconnect
                 THEN /\ BagCardinality(tasks) <= MaxTasks
                      /\ endpoints' =
                            [h.endpoints EXCEPT
                                !.currentRpcUrl = trim(h.endpoints.rpcUrl),
                                !.currentFallbackUrl = trim(h.endpoints.rpcFallback)]
                      /\ LET s == stopPolling(pollTimer, intervals)
                             t == stopPolling(s.pollTimer, s.intervals)
                         IN  /\ pollTimer' = t.pollTimer
                             /\ intervals' = t.intervals
                      /\ provider' = "rpc"
                      /\ tasks' = Spawn(Replace(tasks, k,
                                           [reported EXCEPT !.pc = "failover_wait"]),
                                        [NewTask("connect", "requesting")
                                            EXCEPT !.failover = TRUE])
                 ELSE /\ endpoints' = h.endpoints
                      /\ tasks' = Replace(tasks, k,
                                      [reported EXCEPT
                                          !.pc = IF reported.flow = "backfill"
                                                 THEN "backfill_failed"
                                                 ELSE "throwing",
                                          !.flow = "none"])
                      /\ UNCHANGED <<provider, pollTimer, intervals>>
    /\ UNCHANGED <<pc, statusVars, claimVars, chainHead, rpcFailureHandler,
                   storeVars, questionStates, retry, chain, estimate, bundle,
                   proposalTxHashes, verified, realitio, questions_state, execution>>

\* handleRpcFailure after connectRPC has returned: the finally block clears
\* the flag and withRetry throws the last error.
FailoverFinally(k) ==
    /\ k.pc = "failover_return"
    /\ rpcFailoverInProgress' = FALSE
    /\ tasks' = Replace(tasks, k,
                    [k EXCEPT !.pc = IF k.flow = "backfill" THEN "backfill_failed"
                                     ELSE "throwing",
                              !.flow = "none"])
    /\ UNCHANGED <<pc, statusVars, claimVars, chainHead, provider, pollTimer,
                   rpcFailureHandler, storeVars, questionStates, callVars>>

\* The error leaves the task: connectRPC's catch block clears the provider
\* and returns false, the refresh handler reports it.
RpcThrown(k) ==
    /\ k.pc = "throwing"
    /\ provider' = IF k.kind = "connect" THEN "null" ELSE provider
    /\ tasks' = endTask(tasks, k)
    /\ UNCHANGED <<pc, statusVars, claimVars, chainHead, pollTimer,
                   rpcFailureHandler, rpcFailoverInProgress, storeVars,
                   questionStates, callVars>>

\* connectRPC("a", fallback) has gone through and polling is on.
InitFailover ==
    /\ pc = "ready"
    /\ questionState = Null
    /\ moduleConfig = Null
    /\ now = 0
    /\ status = NotCalled
    /\ answerHistory = <<>>
    /\ userAddress = NoAddress
    /\ claimable = <<>>
    /\ totalClaimable = 0
    /\ claimArrays = NotCalled
    /\ tasks = EmptyBag
    /\ chainHead = 0
    /\ provider = "rpc"
    /\ pollTimer = 1
    /\ intervals = [live |-> {1}, created |-> 1]
    /\ realitio = <<>>
    /\ questions_state = <<>>
    /\ execution = NoExecution
    /\ \E fallback \in {"", "a", "b"} :
          endpoints = [currentRpcUrl |-> "a", currentFallbackUrl |-> fallback,
                       rpcUrl |-> "a", rpcFallback |-> fallback]
    /\ rpcFailureHandler = TRUE
    /\ rpcFailoverInProgress = FALSE
    /\ settings = NoSettings
    /\ proposals = {}
    /\ answers = {}
    /\ allProposals = {}
    /\ questionStates = <<>>
    /\ retry = NoRetry
    /\ chain = NoChain
    /\ estimate = NoEstimate
    /\ NoVerify

NextFailover ==
    \/ RpcRequest
    \/ \E k \in Running : RpcAnswered(k)
    \/ \E k \in Running : RetriesExhausted(k)
    \/ \E k \in Running : FailoverFinally(k)
    \/ \E k \in Running : RpcThrown(k)

SpecFailover == InitFailover /\ [][NextFailover]_vars

\* A call of handleRpcFailure that has set the flag and not yet run its
\* finally block.
FailoverRunning(k) == k.pc \in {"failover_wait", "failover_return"}

\* The step in which withRetry reports a failure to the handler.
FailureReported ==
    \E k \in Running :
        /\ k.pc = "requesting"
        /\ CopiesIn(k, tasks') < CopiesIn(k, tasks)
        /\ \E j \in BagToSet(tasks') :
              /\ j.pc \in {"throwing", "backfill_failed", "failover_wait"}
              /\ CopiesIn(j, tasks') > CopiesIn(j, tasks)

\* The reporting task goes straight on to throw its error, unasked.
ReportIgnored ==
    /\ UNCHANGED <<endpoints, provider, pollTimer, intervals, rpcFailoverInProgress>>
    /\ BagCardinality(tasks') = BagCardinality(tasks)
    /\ \A j \in BagToSet(tasks') :
          CopiesIn(j, tasks') > CopiesIn(j, tasks) =>
              j.filter = "ignored" /\ j.pc \in {"throwing", "backfill_failed"}

OneFailover ==
    /\ \A k, j \in Running :
          FailoverRunning(k) /\ FailoverRunning(j) => j = k /\ CopiesIn(k, tasks) = 1
    /\ rpcFailoverInProgress <=> \E k \in Running : FailoverRunning(k)

\* C38: at most one failover runs at a time, the flag is set exactly while
\* one runs (so every exit path has cleared it and a later failure can start
\* a new one), and a failure reported while one runs neither prompts, saves
\* settings nor reconnects.
C38_SingleFailover ==
    /\ []OneFailover
    /\ [][rpcFailoverInProgress /\ FailureReported => ReportIgnored]_vars

\* A second failover (a to b, then b to c) is running and a failure reported
\* meanwhile has been ignored.
C38_Witness ==
    /\ rpcFailoverInProgress
    /\ endpoints.currentRpcUrl = "c"
    /\ endpoints.currentFallbackUrl = "b"
    /\ \E k \in Running : k.filter = "ignored" /\ k.pc = "throwing"

-----------------------------------------------------------------------------
(* The claims about getLogsChunked, checked under SpecScan *)

\* The sub-ranges requested so far by task k are non-empty, at most
\* LOG_CHUNK_SIZE blocks each, start at fromBlock, follow one another without
\* gap or overlap and stay within toBlock.
ChunksContiguous(k) ==
    LET r == k.ranges
    IN  /\ \A i \in 1..Len(r) :
              /\ r[i][1] <= r[i][2]
              /\ r[i][2] - r[i][1] + 1 <= LOG_CHUNK_SIZE
              /\ r[i][2] <= k.toBlock
        /\ Len(r) > 0 => r[1][1] = k.fromBlock
        /\ \A i \in 1..(Len(r) - 1) : r[i + 1][1] = r[i][2] + 1

\* C9: for fromBlock <= toBlock the sub-ranges fetched by getLogsChunked are
\* contiguous, non-overlapping, at most LOG_CHUNK_SIZE blocks each, ascending
\* and cover exactly [fromBlock, toBlock], and the concatenated result equals
\* one unchunked fetch of the range; for toBlock < fromBlock nothing is fetched
\* and the result is empty.
C9_ChunkingTransparent ==
    \A k \in Running :
        k.kind = "scan" =>
            /\ ChunksContiguous(k)
            /\ (k.pc = "scan_returned" /\ k.fromBlock <= k.toBlock) =>
                  /\ Len(k.ranges) > 0
                  /\ k.ranges[Len(k.ranges)][2] = k.toBlock
                  /\ k.allLogs = getLogs(k.filter, k.fromBlock, k.toBlock)
            /\ k.toBlock < k.fromBlock =>
                  /\ k.pc = "scan_returned"
                  /\ k.ranges = <<>>
                  /\ k.allLogs = <<>>

\* A scan of three sub-ranges, the last one shorter than a chunk.
C9_Witness ==
    \E k \in Running :
        /\ k.kind = "scan"
        /\ k.pc = "scan_returned"
        /\ Len(k.ranges) = 3
        /\ k.ranges[3][2] - k.ranges[3][1] + 1 < LOG_CHUNK_SIZE
        /\ Len(k.allLogs) > 3

-----------------------------------------------------------------------------
(* The claim about overlapping scans, checked under SpecSession *)

\* The number of getLogs requests awaiting their response.
FetchesInFlight ==
    BagCardinality([k \in {x \in Running : x.pc = "scan_await"} |->
                        CopiesIn(k, tasks)])

\* C10: within one session no two log sub-range fetches are in flight at the
\* same time, whichever of polling tick, manual refresh, connect and failover
\* started the scans.
C10_NoOverlappingFetches == FetchesInFlight <= 1

-----------------------------------------------------------------------------
(* The claim about a failed scan, checked under SpecRange *)


\* C11: when the retried fetch of a sub-range is exhausted the scan fails, its
\* caller gets no logs, and nothing derived from the sub-ranges already fetched
\* is persisted: a scan that returns hands over the logs of its whole range,
\* and the records stored from a scan are those of its whole range.
C11_FailedScanCommitsNothing ==
    \A k \in Running :
        /\ k.pc = "scan_threw" =>
              /\ k.allLogs = <<>>
              /\ k.filter = "ProposalQuestionCreated" => proposals = {}
              /\ k.filter = "LogNewAnswer" => answers = {}
        /\ k.pc = "scan_returned" =>
              k.allLogs = getLogs(k.filter, k.fromBlock, k.toBlock)
        /\ (k.flow = "backfill" /\ k.pc # "backfill_done") =>
              /\ proposals \in
                    {{}, ProposalKeys(getLogs("ProposalQuestionCreated",
                                              k.syncFrom, k.syncTo))}
              /\ answers \in
                    {{}, AnswerKeys(getLogs("LogNewAnswer", k.syncFrom, k.syncTo))}

\* The proposal scan failed at a later sub-range after a sub-range holding
\* logs had been fetched.
C11_Witness ==
    \E k \in Running :
        /\ k.pc = "scan_threw"
        /\ k.filter = "ProposalQuestionCreated"
        /\ Len(k.ranges) >= 2
        /\ getLogs(k.filter, k.ranges[1][1], k.ranges[1][2]) # <<>>
        /\ proposals = {}

-----------------------------------------------------------------------------
(* The claims about the watermark, checked under SpecSequential and SpecSession *)

\* Task k takes the step (its frame is replaced or removed).
Steps(k) == CopiesIn(k, tasks') < CopiesIn(k, tasks)

\* C12: the watermark (lastProcessedBlock, earliestIndexedBlock) is written
\* only by updateIndexedRangeSettings, after the proposal scan and the answer
\* scan of the range completed; a phase that fails before that leaves it as it
\* was before the phase started.
C12_WatermarkWrittenLast ==
    [][(settings'.lastProcessedBlock # settings.lastProcessedBlock
         \/ settings'.earliestIndexedBlock # settings.earliestIndexedBlock)
        => \E k \in Running :
              /\ k.pc \in {"uirs_writeEarliest", "uirs_writeLast"}
              /\ Steps(k)]_vars

\* C13: lastProcessedBlock never decreases and earliestIndexedBlock, once set,
\* never increases.
C13_WatermarkMonotone ==
    [][/\ NumberOrZero(settings'.lastProcessedBlock)
            >= NumberOrZero(settings.lastProcessedBlock)
       /\ settings.earliestIndexedBlock # UnsetBlock
            => /\ settings'.earliestIndexedBlock # UnsetBlock
               /\ settings'.earliestIndexedBlock <= settings.earliestIndexedBlock]_vars

\* C14: every stored proposal lies inside the watermark,
\* earliestIndexedBlock <= createdBlock <= lastProcessedBlock; stated for the
\* states in which no flow is in progress.
C14_ProposalsInsideWatermark ==
    Idle => \A b \in proposals :
               /\ settings.earliestIndexedBlock # UnsetBlock
               /\ settings.earliestIndexedBlock <= b
               /\ b <= NumberOrZero(settings.lastProcessedBlock)

\* Task k takes the step and continues as frame n.
Becomes(k, n) == Steps(k) /\ CopiesIn(n, tasks') > CopiesIn(n, tasks)

-----------------------------------------------------------------------------
(* The claim about the question states, checked under SpecStates *)

\* refreshActiveQuestionStates requests exactly the proposals of the mirror
\* that have no cached state, are not finalized or are pending arbitration.
RefreshFetchesActive ==
    \A k \in Running :
        /\ k.pc = "refresh_await" => isActive(Head(k.queue))
        /\ \A n \in Running' :
              (Becomes(k, n) /\ k.pc = "refresh_start" /\ provider # "null") =>
                  {n.queue[i] : i \in 1..Len(n.queue)}
                      = {p \in allProposals : isActive(p)}

\* C17: during incremental sync and polling the state of a cached proposal is
\* re-fetched by refreshActiveQuestionStates if and only if it has no cached
\* state, is not finalized or is pending arbitration, and no incremental sync
\* or polling tick requests the state of a proposal whose cached state is
\* finalized and not pending arbitration.
C17_OnlyActiveRefetched ==
    [][/\ RefreshFetchesActive
       /\ \A k \in Running :
             k.pc = "loadNew_await" => isActive(Head(k.queue))]_vars

\* The part of C17 that is about refreshActiveQuestionStates alone.
C17_RefreshFilter == [][RefreshFetchesActive]_vars

-----------------------------------------------------------------------------
(* The claims about the stored records, checked under SpecAnswers and       *)
(* SpecIndex                                                                 *)

\* r1 comes before r2 in getCachedAnswers' order.
answerBefore(r1, r2) ==
    \/ r1.blockNumber < r2.blockNumber
    \/ r1.blockNumber = r2.blockNumber /\ r1.logIndex <= r2.logIndex

RECURSIVE sortAnswers(_)
sortAnswers(S) ==
    IF S = {} THEN <<>>
    ELSE LET first == CHOOSE r \in S : \A o \in S : answerBefore(r, o)
         IN  <<first>> \o sortAnswers(S \ {first})

\* getCachedAnswers(questionId) on the given answers store.
getCachedAnswers(store, questionId) ==
    sortAnswers({r \in store : r.questionId = questionId})

QuestionIds == {<<b, spelling>> : b \in SessionBlocks, spelling \in {0, 1}}

\* The records an answer-indexing call has put.
callRecords(k) ==
    IF k.kind = "indexAnswersInRange"
    THEN {indexedAnswer(k.allLogs[i]) : i \in 1..Len(k.allLogs)}
    ELSE {k.allLogs[i] : i \in 1..Len(k.allLogs)}

\* The store holds a record of the same log.
sameLogStored(store, rec) ==
    \E r \in store : r.blockNumber = rec.blockNumber /\ r.logIndex = rec.logIndex

\* C18: no log is stored twice, and after indexAnswersInRange or
\* fetchAnswerHistory ran over logs indexed before, the history of every
\* question holds the records it held, in the same order; if all its logs were
\* indexed before, the store is unchanged.
C18_ReindexIdempotent ==
    /\ \A r1 \in answers : \A r2 \in answers :
          (r1.blockNumber = r2.blockNumber /\ r1.logIndex = r2.logIndex) => r1 = r2
    /\ \A k \in Running :
          (k.kind \in {"indexAnswersInRange", "fetchAnswerHistory"}
             /\ k.pc = "returning") =>
              /\ \A q \in QuestionIds :
                    getCachedAnswers(k.before, q)
                        = SelectSeq(getCachedAnswers(answers, q),
                                    LAMBDA r : r \in k.before)
              /\ (\A rec \in callRecords(k) : sameLogStored(k.before, rec))
                    => answers = k.before

\* fetchAnswerHistory has run over a history of several answers, all of them
\* stored before the call.
C18_Witness ==
    \E k \in Running :
        /\ k.kind = "fetchAnswerHistory" /\ k.pc = "returning"
        /\ Len(k.allLogs) >= 2
        /\ \A rec \in callRecords(k) : sameLogStored(k.before, rec)
        /\ answers = k.before

\* C19: a stored answer record is never removed and never changed, whatever
\* call runs next.
C19_AnswersAppendOnly == [][\A r \in answers : r \in answers']_vars

\* indexAnswersInRange has run over a range that holds both stored and new
\* answers: the stored ones are still there.
C19_Witness ==
    \E k \in Running :
        /\ k.kind = "indexAnswersInRange" /\ k.pc = "returning"
        /\ k.before # {} /\ answers # k.before
        /\ \E rec \in callRecords(k) : rec \in k.before
        /\ \A r \in k.before : r \in answers

\* C20: a stored proposal record is never removed and none of its fields
\* changes, whatever call runs next.
C20_ProposalsImmutable == [][\A r \in proposals : r \in proposals']_vars

-----------------------------------------------------------------------------
(* The claim about withRetry, checked under SpecRetry *)

\* What holds at every point of a withRetry call.
RetrySafe ==
    /\ retry.attempts <= MAX_RETRIES
    /\ Len(retry.handled) <= 1
    /\ retry.outcome = "returned" =>
          /\ retry.value = retry.resolved
          /\ retry.value \in RpcValues
          /\ retry.handled = <<>>
    /\ retry.handled # <<>> =>
          /\ retry.attempts = MAX_RETRIES
          /\ retry.resolved = "none"
          /\ retry.handled = <<retry.lastErr>>
    /\ retry.outcome = "thrown" =>
          /\ retry.attempts = MAX_RETRIES
          /\ retry.value = retry.lastErr
          /\ retry.value \in RpcErrors
          /\ rpcFailureHandler =>
                /\ Len(retry.handled) = 1
                /\ retry.handler \in {"returned", "threw", "switched"}

\* C21: withRetry calls fn at most MAX_RETRIES times; when an attempt resolves
\* its value is returned and the failure handler is not invoked; when every
\* attempt rejects, the registered handler is invoked once, with the last
\* error, and is over (returned, threw or switched endpoints) before the
\* caller gets the failure, and the caller does get the last error.
C21_RetryContract ==
    /\ []RetrySafe
    /\ (retry.pc = "exhausted") ~> (retry.outcome = "thrown")

\* Every attempt failed, the handler switched endpoints, the error reached
\* the caller.
C21_Witness ==
    /\ retry.outcome = "thrown"
    /\ retry.handler = "switched"
    /\ retry.attempts = MAX_RETRIES

-----------------------------------------------------------------------------
(* The claims about estimateBlockFromTime, checked under SpecEstimate *)

\* b is the lowest block of chain c whose timestamp is at least target
\* (timestamps never decrease along the chain).
LowestAtOrAfter(c, b, target) ==
    /\ blockTimestamp(c, b) >= target
    /\ b = 0 \/ blockTimestamp(c, b - 1) < target

\* C22: when every block lookup is answered, estimateBlockFromTime returns
\* the lowest block whose timestamp is at least the head's timestamp minus
\* secondsAgo.
C22_ReturnsLowestBlock ==
    estimate.pc = "returned" /\ ~chain.sparse =>
        LowestAtOrAfter(chain, estimate.result, estimate.targetTs)

\* A chain with a block every 12 seconds, asked for the block of a day ago.
TwelveSecondDay ==
    /\ chain.interval = NominalBlockSeconds
    /\ chain.gap = 0
    /\ ~chain.sparse
    /\ estimate.secondsAgo = SECONDS_PER_DAY

\* C23: on a chain with a block every 12 seconds, estimateBlockFromTime with
\* secondsAgo = 86400 leaves its loop with lo = hi after at most 15
\* iterations and returns the lowest block whose timestamp is at least
\* T - 86400.
C23_DayOnTwelveSecondChain ==
    estimate.pc = "returned" /\ TwelveSecondDay =>
        /\ estimate.lo = estimate.hi
        /\ estimate.i <= SearchIterations
        /\ LowestAtOrAfter(chain, estimate.result, estimate.targetTs)

\* The search ran (13 iterations) and returned the block 7200 below the head.
C23_Witness ==
    /\ estimate.pc = "returned"
    /\ TwelveSecondDay
    /\ estimate.i > 0
    /\ estimate.result = chainHead - SECONDS_PER_DAY \div NominalBlockSeconds

\* At every point of a search: the bounds stay between the first lower bound
\* and the head, and the iterations within the limit.
SearchWithinBounds ==
    estimate.pc \in {"loop", "returned"} =>
        /\ estimate.lo0 = initialLo(chainHead, estimate.secondsAgo)
        /\ estimate.lo0 <= estimate.lo
        /\ estimate.lo <= estimate.hi
        /\ estimate.hi <= chainHead
        /\ estimate.i <= SearchIterations
        /\ estimate.pc = "returned" => estimate.result = estimate.lo

\* The step in which getBlock(mid) resolves with null.
NullLookup ==
    /\ estimate.pc = "loop"
    /\ estimate'.i = estimate.i + 1
    /\ estimate'.lookup = "null"

\* C30: a null block lookup inside the binary search does not end the call:
\* the loop goes on with a strictly smaller range, it ends within 15
\* iterations, and the block returned lies between the first lower bound
\* max(0, head - 2 * ceil(secondsAgo / 12)) and the head.
C30_NullLookupTolerated ==
    /\ []SearchWithinBounds
    /\ [][NullLookup =>
            /\ estimate'.pc = "loop"
            /\ estimate'.hi - estimate'.lo < estimate.hi - estimate.lo]_vars

\* A search whose last lookup resolved with null has returned.
C30_Witness ==
    /\ estimate.pc = "returned"
    /\ estimate.lookup = "null"
    /\ estimate.lo0 < estimate.result

-----------------------------------------------------------------------------
(* The claim about verifyTxBundle, checked under SpecVerify *)

\* The two lists have the same length and the same hash at every index,
\* whatever the spelling.
SameHashes(a, b) ==
    /\ Len(a) = Len(b)
    /\ \A i \in 1..Len(a) : a[i][1] = b[i][1]

\* C24: verifyTxBundle answers valid exactly when the bundle's hashes and the
\* proposal's txHashes have the same length and are equal at every index
\* whatever the case; otherwise the reason names the two counts or, with
\* equal counts, the lowest index at which the hashes differ and both hashes.
C24_BundleVerification ==
    pc = "done" =>
        LET a == bundle.txHashes
            b == proposalTxHashes
        IN  /\ verified.valid <=> SameHashes(a, b)
            /\ ~verified.valid /\ Len(a) # Len(b) =>
                  /\ verified.reason.kind = "Hash count mismatch"
                  /\ verified.reason.bundle = Len(a)
                  /\ verified.reason.proposal = Len(b)
            /\ ~verified.valid /\ Len(a) = Len(b) =>
                  /\ verified.reason.kind = "Hash mismatch at index"
                  /\ LET i == verified.reason.index + 1
                     IN  /\ i \in 1..Len(a)
                         /\ a[i][1] # b[i][1]
                         /\ \A j \in 1..(i - 1) : a[j][1] = b[j][1]
                         /\ verified.reason.bundle = a[i]
                         /\ verified.reason.proposal = b[i]

\* Two lists that match except for the spelling were found valid.
C24_Witness ==
    /\ pc = "done"
    /\ verified.valid
    /\ Len(bundle.txHashes) = MaxHashes
    /\ bundle.txHashes # proposalTxHashes

-----------------------------------------------------------------------------
(* The claim about the polling timer, checked under SpecPolling *)

\* C25: stopPolling with no timer armed changes nothing and a second
\* stopPolling changes nothing more; startPolling leaves the timer it arms as
\* the only live one; and whatever doSaveSettings, connectRPC, polling ticks
\* and failovers have run, at most one interval timer is live, the one
\* _pollTimer holds.
C25_AtMostOneTimer ==
    LET here == [pollTimer |-> pollTimer, intervals |-> intervals]
        stopped == stopPolling(pollTimer, intervals)
        started == startPolling(pollTimer, intervals)
    IN  /\ Cardinality(intervals.live) <= 1
        /\ intervals.live = IF pollTimer = 0 THEN {} ELSE {pollTimer}
        /\ pollTimer = 0 => stopped = here
        /\ stopPolling(stopped.pollTimer, stopped.intervals) = stopped
        /\ started.intervals.live = {started.pollTimer}
        /\ started.pollTimer \notin {0, pollTimer}

\* A second timer has been armed while a connectRPC is still on its way, and
\* it is the only live one.
C25_Witness ==
    /\ intervals.created >= 2
    /\ intervals.live = {intervals.created}
    /\ \E k \in Running : k.kind = "connect"

-----------------------------------------------------------------------------
(* The claim about runBackfill, checked under SpecBackfill *)

\* Every proposal log, and every answer log, of the blocks fromBlock..toBlock
\* has its record in the store.
RangeProposalsStored(fromBlock, toBlock) ==
    ProposalKeys(getLogs("ProposalQuestionCreated", fromBlock, toBlock))
        \subseteq proposals
RangeAnswersStored(fromBlock, toBlock) ==
    AnswerKeys(getLogs("LogNewAnswer", fromBlock, toBlock)) \subseteq answers

\* The watermark is written and the records of the range it names are stored.
WatermarkCovered ==
    /\ settings.earliestIndexedBlock # UnsetBlock
    /\ settings.lastProcessedBlock # UnsetBlock
    /\ RangeProposalsStored(settings.earliestIndexedBlock, settings.lastProcessedBlock)
    /\ RangeAnswersStored(settings.earliestIndexedBlock, settings.lastProcessedBlock)

\* Where a backfill stands, and what is done by then.
BackfillPhases ==
    \A k \in Running :
        /\ k.flow = "backfill" =>
              /\ ~settings.answerCacheReady
              /\ k.syncTo <= chainHead
              /\ k.filter = "LogNewAnswer" =>
                    RangeProposalsStored(k.syncFrom, k.syncTo)
              /\ k.pc \in {"uirs_readEarliest", "uirs_writeEarliest",
                           "uirs_readLast", "uirs_writeLast"} =>
                    /\ RangeProposalsStored(k.syncFrom, k.syncTo)
                    /\ RangeAnswersStored(k.syncFrom, k.syncTo)
              /\ k.pc \in {"backfill_done", "backfill_ready"} => WatermarkCovered
        /\ k.pc = "backfill_ready" => DOMAIN questionStates \subseteq proposals

-----------------------------------------------------------------------------
(* The claim about the cache wipe, checked under SpecReindex *)

\* C27: no call that holds a lastProcessedBlock read before a cache wipe
\* writes the watermark after the wipe.
C27_NoStaleWatermarkWrite ==
    [][\A k \in Running : k.preWipe /\ Steps(k) => settings' = settings]_vars

-----------------------------------------------------------------------------
(* The claim about the coverage expansion, checked under SpecExpand *)

\* The step is a maybeExpandBackfillCoverage.
ExpandStep ==
    \E k \in Running' : k.kind = "maybeExpandBackfillCoverage" /\ k \notin Running

\* C28: a coverage expansion leaves every proposal record, every question
\* state and every answer record cached before it as it was, and leaves
\* lastProcessedBlock and answerCacheReady unchanged.
C28_ExpandLeavesCacheUnchanged ==
    [][ExpandStep =>
          /\ proposals \subseteq proposals'
          /\ answers \subseteq answers'
          /\ \A q \in DOMAIN questionStates :
                q \in DOMAIN questionStates' /\ questionStates'[q] = questionStates[q]
          /\ settings'.lastProcessedBlock = settings.lastProcessedBlock
          /\ settings'.answerCacheReady = settings.answerCacheReady]_vars

-----------------------------------------------------------------------------
(* The claim about the progress reports of getLogsChunked, checked under     *)
(* SpecScan                                                                   *)

\* C29: the percentage getLogsChunked reports never decreases and never
\* exceeds 100, it is 100 after the last sub-range, and the running log count
\* reported never decreases and ends at the number of logs returned.
C29_ProgressMonotone ==
    \A k \in Running :
        k.kind = "scan" =>
            /\ \A i \in 1..Len(k.reports) :
                  /\ k.reports[i][1] \in 0..100
                  /\ i > 1 => /\ k.reports[i - 1][1] <= k.reports[i][1]
                              /\ k.reports[i - 1][2] <= k.reports[i][2]
            /\ (k.pc = "scan_returned" /\ k.fromBlock <= k.toBlock) =>
                  /\ Len(k.reports) = Len(k.ranges)
                  /\ k.reports[Len(k.reports)] = <<100, Len(k.allLogs)>>

\* A scan of three sub-ranges has returned; the last sub-range is shorter
\* than the others, the percentage and the count both grew on the way.
C29_Witness ==
    \E k \in Running :
        /\ k.kind = "scan"
        /\ k.pc = "scan_returned"
        /\ Len(k.reports) = 3
        /\ k.ranges[3][2] - k.ranges[3][1] < k.ranges[2][2] - k.ranges[2][1]
        /\ k.reports[1][1] < k.reports[2][1]
        /\ k.reports[1][1] < 100
        /\ k.reports[1][2] < k.reports[3][2]

-----------------------------------------------------------------------------
(* The claim about failing requests of a decode, checked under SpecDecode *)

\* The creation logs of the chain up to the head.
CreationLogs ==
    LET logs == getLogs("ProposalQuestionCreated", 0, chainHead)
    IN  {logs[i] : i \in 1..Len(logs)}

\* Record r is what the log gives with the originating transaction not
\* recovered.
DegradedRecord(r, log) ==
    /\ r.proposalId = EmptyId
    /\ r.txHashes = <<>>
    /\ r.questionText = ""

\* Record r carries the arguments of the originating addProposal call; the
\* question text is there or empty.
RecoveredRecord(r, log) ==
    /\ r.proposalId = addProposalArgs(log).proposalId
    /\ r.txHashes = addProposalArgs(log).txHashes
    /\ r.questionText \in {"", "question"}

-----------------------------------------------------------------------------
(* The claims about loading question states, checked under SpecQuestion *)

\* The question task k is loading.
Loading(k) == Head(k.queue)

\* State st of question id carries what the contract answers now in every
\* field read from questions() and isFinalized(), and has no other field
\* but finalAnswer.
FreshState(st, id) ==
    LET c == realitio[id]
    IN  /\ DOMAIN st = {"questionId", "contentHash", "arbitrator", "openingTs", "timeout",
                        "finalizeTs", "isPendingArbitration", "bounty", "bestAnswer",
                        "historyHash", "bond", "minBond", "isFinalized", "finalAnswer"}
        /\ st.questionId = id
        /\ st.contentHash = c.questions.content_hash
        /\ st.arbitrator = c.questions.arbitrator
        /\ st.openingTs = c.questions.opening_ts
        /\ st.timeout = c.questions.timeout
        /\ st.finalizeTs = c.questions.finalize_ts
        /\ st.isPendingArbitration = c.questions.is_pending_arbitration
        /\ BigInt(st.bounty) = c.questions.bounty
        /\ st.bestAnswer = c.questions.best_answer
        /\ st.historyHash = c.questions.history_hash
        /\ BigInt(st.bond) = c.questions.bond
        /\ BigInt(st.minBond) = c.questions.min_bond
        /\ st.isFinalized = c.isFinalized
        /\ st.finalAnswer \in {NullValue, c.getFinalAnswer} \ {Reverts}

\* A load that went through has stored the complete fresh record, with
\* finalAnswer null where reading the resolved answer reverts.
LoadReplaces ==
    \A k \in Running :
        k.pc = "loaded" =>
            /\ FreshState(k.state, Loading(k))
            /\ questions_state[Loading(k)] = k.state
            /\ realitio[Loading(k)].getFinalAnswer = Reverts =>
                  k.state.finalAnswer = NullValue

\* A step of task k that reads the resolved answer goes on to the put,
\* with null where the read reverts.
RevertTolerated(k) ==
    (Steps(k) /\ k.pc = "getFinalAnswer") =>
        \E n \in Running' :
           /\ n.pc = "dbPut" /\ n.queue = k.queue
           /\ realitio[Loading(k)].getFinalAnswer = Reverts => n.finalAnswer = NullValue

\* The store changes only by the put of a load, and only in the record of
\* the question loaded.
OnlyPutStores(k) ==
    (Steps(k) /\ questions_state' # questions_state) =>
        /\ k.pc = "dbPut"
        /\ \A id \in DOMAIN questions_state :
              id # Loading(k) => /\ id \in DOMAIN questions_state'
                                 /\ questions_state'[id] = questions_state[id]

\* C32: a finalized question whose resolved answer cannot be read is loaded
\* with finalAnswer null; a load that goes through replaces the stored state
\* of its question by the complete freshly read record; a load whose question
\* read or finalized check fails stores nothing.
C32_LoadFullReplace ==
    /\ []LoadReplaces
    /\ [][\A k \in Running : RevertTolerated(k) /\ OnlyPutStores(k)]_vars

\* A finalized question whose resolved answer reverts has been loaded over
\* a different cached record.
C32_Witness ==
    \E k \in Running :
        /\ k.pc = "loaded"
        /\ realitio[Loading(k)].isFinalized
        /\ realitio[Loading(k)].getFinalAnswer = Reverts
        /\ Loading(k) \in DOMAIN k.before
        /\ k.before[Loading(k)] # k.state
        /\ \E id \in k.failed : id \in DOMAIN questions_state

\* What was cached for question id when batch k started; Null for nothing.
CachedBefore(k, id) == IF id \in DOMAIN k.before THEN k.before[id] ELSE Null

\* What is cached for question id now.
CachedNow(id) == IF id \in DOMAIN questionStates THEN questionStates[id] ELSE Null

\* C33: a batch never fails; when it has returned, every question whose
\* load failed has the state cached before the batch, and every other
\* question of the batch has its freshly loaded state.
C33_BatchIsolatesFailures ==
    \A k \in Running :
        /\ k.pc # "throwing"
        /\ k.pc = "returned" =>
              \A i \in 1..Len(k.batch) :
                 IF k.batch[i] \in k.failed
                 THEN CachedNow(k.batch[i]) = CachedBefore(k, k.batch[i])
                 ELSE /\ k.batch[i] \in DOMAIN questionStates
                      /\ FreshState(questionStates[k.batch[i]], k.batch[i])
                      /\ questionStates[k.batch[i]] = questions_state[k.batch[i]]

\* A refresh of two questions has returned: the load of the first failed
\* and left its cached state, the second was loaded and changed.
C33_Witness ==
    \E k \in Running :
        /\ k.kind = "refreshActiveQuestionStates"
        /\ k.pc = "returned"
        /\ Len(k.batch) = 2
        /\ k.batch[1] \in k.failed
        /\ CachedBefore(k, k.batch[1]) # Null
        /\ k.batch[2] \notin k.failed
        /\ CachedNow(k.batch[2]) # CachedBefore(k, k.batch[2])

\* The eight fields of a question state the change detection looks at.
ComparedFields ==
    {"bestAnswer", "bond", "finalizeTs", "isFinalized", "finalAnswer",
     "isPendingArbitration", "historyHash", "minBond"}

\* The fresh state differs from the one cached before in a compared field,
\* or nothing was cached.
ComparedFieldDiffers(prev, next) ==
    prev = Null \/ \E f \in ComparedFields : prev[f] # next[f]

\* C34: refreshActiveQuestionStates runs over the active proposals and
\* returns the number of those whose freshly loaded state differs from the
\* previously cached one in a compared field; the update is notified exactly
\* when that number is not 0.
C34_CountsComparedChanges ==
    \A k \in Running :
        k.kind = "refreshActiveQuestionStates" =>
            /\ \A i \in 1..Len(allProposals) :
                  LET prev == CachedBefore(k, allProposals[i].questionId)
                  IN  (\E j \in 1..Len(k.batch) :
                          k.batch[j] = allProposals[i].questionId)
                      <=> (prev = Null \/ ~prev.isFinalized \/ prev.isPendingArbitration)
            /\ k.pc = "returned" =>
                  k.updates = Cardinality({i \in 1..Len(k.batch) :
                      /\ k.batch[i] \notin k.failed
                      /\ ComparedFieldDiffers(CachedBefore(k, k.batch[i]),
                                              CachedNow(k.batch[i]))})
            /\ k.pc = "done" => (k.notified <=> k.updates > 0)

\* A refresh of two questions is through: one fresh state differs from the
\* cached one in the bounty only and is not counted, the other is counted.
C34_Witness ==
    \E k \in Running :
        /\ k.kind = "refreshActiveQuestionStates"
        /\ k.pc = "done"
        /\ Len(k.batch) = 2
        /\ k.failed = {}
        /\ k.updates = 1
        /\ k.notified
        /\ \E i \in 1..2 :
              /\ CachedBefore(k, k.batch[i]) # Null
              /\ CachedBefore(k, k.batch[i]) # CachedNow(k.batch[i])
              /\ ~ComparedFieldDiffers(CachedBefore(k, k.batch[i]), CachedNow(k.batch[i]))

-----------------------------------------------------------------------------
(* The claim about the range the watermark names, checked under              *)
(* SpecWatermark                                                             *)

\* C35: whenever the watermark is set, every proposal-creation log of the
\* blocks earliestIndexedBlock..lastProcessedBlock has its record in the
\* proposals store.
C35_WatermarkRangeStored ==
    (settings.earliestIndexedBlock # UnsetBlock /\ settings.lastProcessedBlock # UnsetBlock)
        => \A log \in CreationLogs :
              (/\ settings.earliestIndexedBlock <= log.blockNumber
               /\ log.blockNumber <= settings.lastProcessedBlock)
                  => \E r \in proposals : r.questionId = <<log.questionId, 0>>

-----------------------------------------------------------------------------
(* The claim about the incremental sync, checked under SpecSequential *)

\* C36: fetchNewProposals runs only with a lastProcessedBlock stored: it
\* never goes on from a read of an unset watermark and never scans from
\* block 1.
C36_SyncNeedsWatermark ==
    \A k \in Running :
        k.flow = "fnp" =>
            /\ k.pc = "fnp_head" => k.read > 0
            /\ k.filter # "none" => k.syncFrom > 1

-----------------------------------------------------------------------------
(* The claim about the deliveries of a polling tick, checked under           *)
(* SpecSession                                                               *)

\* Tick k has fetched its new proposals and calls onNewData with them next.
Delivering(k) == k.kind = "poll" /\ k.pc = "fnp_done" /\ k.newProposals # {}

\* C37: a newly discovered proposal is handed to onNewData at most once: no
\* two ticks stand before their onNewData call with the same proposal.
C37_DeliveredOnce ==
    \A k \in Running :
        Delivering(k) =>
            /\ CopiesIn(k, tasks) = 1
            /\ \A n \in Running \ {k} :
                  Delivering(n) => n.newProposals \cap k.newProposals = {}

-----------------------------------------------------------------------------
(* reality.js: computeProposalStatus *)

Result(label, executable, reason) ==
    [label |-> label, executable |-> executable, reason |-> reason]

hasAnswer(qs) == qs.bond # toString(0) /\ qs.bestAnswer # ZeroHash

PendingStatus(qs, t) ==
    IF ~hasAnswer(qs)
    THEN Result("pending", FALSE, "No answers yet")
    ELSE IF qs.finalizeTs > 0 /\ t < qs.finalizeTs
    THEN Result("pending", FALSE, "Best answer set, finalizes in")
    ELSE Result("pending", FALSE, "Best answer set, awaiting finalization call")

\* FinalizedStatus with the minimum-bond check left out.
FinalizedStatus_noBondCheck(qs, cfg, t) ==
    LET answer == IF qs.finalAnswer # NullValue THEN qs.finalAnswer
                  ELSE qs.bestAnswer
    IN  IF answer # ANSWER_YES
        THEN Result("finalized", FALSE, "Final answer is NO")
        ELSE IF cfg.questionCooldown > 0 /\ t < qs.finalizeTs + cfg.questionCooldown
        THEN Result("finalized", FALSE, "Cooldown remaining")
        ELSE IF cfg.answerExpiration > 0 /\ t > qs.finalizeTs + cfg.answerExpiration
        THEN Result("finalized", FALSE, "Answer has expired")
        ELSE Result("executable", TRUE, "Ready to execute")

FinalizedStatus(qs, cfg, t) ==
    LET answer == IF qs.finalAnswer # NullValue THEN qs.finalAnswer
                  ELSE qs.bestAnswer
        isYes == answer = ANSWER_YES
        cooldownEnd == qs.finalizeTs + cfg.questionCooldown
        expiresAt == qs.finalizeTs + cfg.answerExpiration
    IN  IF ~isYes
        THEN Result("finalized", FALSE, "Final answer is NO")
        ELSE IF BigInt(qs.bond) < BigInt(cfg.minimumBond)
        THEN Result("finalized", FALSE, "Bond < min")
        ELSE IF cfg.questionCooldown > 0 /\ t < cooldownEnd
        THEN Result("finalized", FALSE, "Cooldown remaining")
        ELSE IF cfg.answerExpiration > 0 /\ t > expiresAt
        THEN Result("finalized", FALSE, "Answer has expired")
        ELSE Result("executable", TRUE, "Ready to execute")

\* computeProposalStatus judging a non-finalized question by the finalized rules
\* once its finalizeTs has passed.
computeProposalStatus_finalizeTsAsFinal(qs, cfg, t) ==
    IF qs = Null
    THEN Result("unknown", FALSE, "No question state")
    ELSE IF qs.isPendingArbitration
    THEN Result("arbitration", FALSE, "Pending arbitration")
    ELSE IF ~qs.isFinalized /\ ~(qs.finalizeTs > 0 /\ t >= qs.finalizeTs)
    THEN PendingStatus(qs, t)
    ELSE FinalizedStatus(qs, cfg, t)

\* computeProposalStatus with the arbitration test after the finalized test.
computeProposalStatus_arbitrationLast(qs, cfg, t) ==
    IF qs = Null
    THEN Result("unknown", FALSE, "No question state")
    ELSE IF qs.isFinalized
    THEN FinalizedStatus(qs, cfg, t)
    ELSE IF qs.isPendingArbitration
    THEN Result("arbitration", FALSE, "Pending arbitration")
    ELSE PendingStatus(qs, t)

computeProposalStatus(qs, cfg, t) ==
    IF qs = Null
    THEN Result("unknown", FALSE, "No question state")
    ELSE IF qs.isPendingArbitration
    THEN Result("arbitration", FALSE, "Pending arbitration")
    ELSE IF ~qs.isFinalized
    THEN PendingStatus(qs, t)
    ELSE FinalizedStatus(qs, cfg, t)

InitStatus ==
    /\ pc = "ready"
    /\ questionState \in QuestionStates \cup {Null}
    /\ moduleConfig \in ModuleConfigs
    /\ now \in 0..MaxNow
    /\ status = NotCalled
    /\ answerHistory = <<>>
    /\ userAddress = NoAddress
    /\ claimable = <<>>
    /\ totalClaimable = 0
    /\ claimArrays = NotCalled
    /\ NoSession

ComputeStatus ==
    /\ pc = "ready"
    /\ pc' = "done"
    /\ status' = computeProposalStatus(questionState, moduleConfig, now)
    /\ UNCHANGED <<questionState, moduleConfig, now, claimVars, sessionVars, callVars>>

NextStatus == ComputeStatus

SpecStatus == InitStatus /\ [][NextStatus]_vars

-----------------------------------------------------------------------------
(* claim.js (bundled in app.js): claim eligibility *)

Accounts == {"A", "B"}
\* Log decoding and the wallet both give checksummed addresses; a caller may
\* also pass the lower-case spelling.
EntryUsers == {<<a, 1>> : a \in Accounts}
UserAddresses == EntryUsers \cup {<<"A", 0>>}

Histories(Entries) == UNION {[1..n -> Entries] : n \in 0..MaxHistory}

\* finalizationReached without the finalizeTs > 0 guard.
finalizationReached_noZeroGuard(isFinalized, finalizeTs, t) ==
    isFinalized \/ t >= finalizeTs

\* finalizationReached that counts any answered question as finalized.
finalizationReached_answered(isFinalized, finalizeTs, t) ==
    isFinalized \/ finalizeTs > 0

\* isFinalized || (finalizeTs > 0 && now >= finalizeTs), as the loop tests it
\* for an outbid entry and for the last entry.
finalizationReached(isFinalized, finalizeTs, t) ==
    isFinalized \/ (finalizeTs > 0 /\ t >= finalizeTs)

\* claimVerdict without the arbitration branch.
claimVerdict_ignoreArbitration(wasOutbid, isFinalized, finalizeTs, isPendingArbitration, t) ==
    IF finalizationReached(isFinalized, finalizeTs, t)
    THEN <<TRUE, "Final answer - claimable">>
    ELSE <<FALSE, "Final answer - not yet finalizable">>

\* The if / else-if chain of the loop body: claimable and reason.
claimVerdict(wasOutbid, isFinalized, finalizeTs, isPendingArbitration, t) ==
    LET reached == finalizationReached(isFinalized, finalizeTs, t)
    IN  IF isPendingArbitration
        THEN <<FALSE, "Pending arbitration - cannot claim yet">>
        ELSE IF wasOutbid
        THEN IF reached THEN <<TRUE, "Outbid - claimable (finalized)">>
             ELSE <<FALSE, "Outbid - waiting for finalization">>
        ELSE IF reached THEN <<TRUE, "Final answer - claimable">>
             ELSE IF finalizeTs > 0
             THEN <<FALSE, "Final answer - finalizes at">>
             ELSE <<FALSE, "Final answer - not yet finalizable">>

\* The loop body of computeClaimableAnswers for the entry at 1-based position i.
claimEntry(h, i, isFinalized, finalizeTs, isPendingArbitration, t) ==
    LET entry == h[i]
        isLastAnswer == i = Len(h)
        wasOutbid == i < Len(h)
        verdict == claimVerdict(wasOutbid, isFinalized, finalizeTs,
                                isPendingArbitration, t)
    IN  [index |-> i - 1,
         answer |-> entry.answer,
         bond |-> entry.bond,
         ts |-> entry.ts,
         historyHash |-> entry.historyHash,
         user |-> entry.user,
         claimable |-> verdict[1],
         reason |-> verdict[2],
         isLastAnswer |-> isLastAnswer]

computeClaimableAnswers(h, qs, user, t) ==
    IF Len(h) = 0 \/ user = NoAddress
    THEN <<>>
    ELSE LET userLower == toLowerCase(user)
             isFinalized == IF qs = Null THEN FALSE ELSE qs.isFinalized
             finalizeTs == IF qs = Null THEN 0 ELSE qs.finalizeTs
             isPendingArbitration ==
                 IF qs = Null THEN FALSE ELSE qs.isPendingArbitration
             mine == SelectSeq([i \in 1..Len(h) |-> i],
                               LAMBDA i : toLowerCase(h[i].user) = userLower)
         IN  [k \in 1..Len(mine) |->
                 claimEntry(h, mine[k], isFinalized, finalizeTs,
                            isPendingArbitration, t)]

RECURSIVE estimateClaimableAmount(_)
estimateClaimableAmount(entries) ==
    IF Len(entries) = 0 THEN 0
    ELSE estimateClaimableAmount(SubSeq(entries, 1, Len(entries) - 1))
         + (IF entries[Len(entries)].claimable
            THEN BigInt(entries[Len(entries)].bond) ELSE 0)

\* Inputs of the eligibility check: the fields computeClaimableAnswers reads
\* vary, the others are fixed.
ClaimBonds == {toString(1), toString(10)}
ClaimEntries ==
    [user : EntryUsers, bond : ClaimBonds, answer : {ANSWER_YES},
     historyHash : {"0xh1"}, ts : {1}]
ClaimStates ==
    { q \in QuestionStates :
        q.bestAnswer = ANSWER_YES /\ q.bond = toString(1)
        /\ q.finalAnswer = NullValue }

InitClaim ==
    /\ pc = "ready"
    /\ questionState \in ClaimStates \cup {Null}
    /\ moduleConfig = Null
    /\ now \in 0..MaxNow
    /\ status = NotCalled
    /\ answerHistory \in Histories(ClaimEntries)
    /\ userAddress \in UserAddresses \cup {NoAddress}
    /\ claimable = <<>>
    /\ totalClaimable = 0
    /\ claimArrays = NotCalled
    /\ NoSession

\* updateClaimSection: the eligibility entries, then their total.
UpdateClaimSection ==
    /\ pc = "ready"
    /\ pc' = "done"
    /\ claimable' = computeClaimableAnswers(answerHistory, questionState,
                                            userAddress, now)
    /\ totalClaimable' = estimateClaimableAmount(claimable')
    /\ UNCHANGED <<statusVars, answerHistory, userAddress, claimArrays, sessionVars, callVars>>

NextClaim == UpdateClaimSection

SpecClaim == InitClaim /\ [][NextClaim]_vars

\* [...answerHistory].reverse()
RECURSIVE reverse(_)
reverse(h) ==
    IF Len(h) = 0 THEN <<>> ELSE Append(reverse(Tail(h)), Head(h))

\* buildClaimArrays reversing the caller's array in place (no copy).
buildClaimArrays_inPlace(h) ==
    LET reversed == reverse(h)
    IN  [input |-> reversed,
         historyHashes |-> [i \in 1..Len(reversed) |-> reversed[i].historyHash],
         addrs |-> [i \in 1..Len(reversed) |-> reversed[i].user],
         bonds |-> [i \in 1..Len(reversed) |-> BigInt(reversed[i].bond)],
         answers |-> [i \in 1..Len(reversed) |-> reversed[i].answer]]

\* The four parallel arrays, and the caller's array as the call leaves it.
buildClaimArrays(h) ==
    LET reversed == reverse(h)
    IN  [input |-> h,
         historyHashes |-> [i \in 1..Len(reversed) |-> reversed[i].historyHash],
         addrs |-> [i \in 1..Len(reversed) |-> reversed[i].user],
         bonds |-> [i \in 1..Len(reversed) |-> BigInt(reversed[i].bond)],
         answers |-> [i \in 1..Len(reversed) |-> reversed[i].answer]]

BuildEntries ==
    [user : EntryUsers, bond : ClaimBonds, answer : {ANSWER_YES, ANSWER_NO},
     historyHash : {"0xh1", "0xh2"}, ts : {1}]

InitBuild ==
    /\ pc = "ready"
    /\ questionState = Null
    /\ moduleConfig = Null
    /\ now = 0
    /\ status = NotCalled
    /\ answerHistory \in Histories(BuildEntries)
    /\ userAddress = NoAddress
    /\ claimable = <<>>
    /\ totalClaimable = 0
    /\ claimArrays = NotCalled
    /\ NoSession

\* claimWinnings / buildClaimPreview: the arrays are built from the history.
BuildClaimArrays ==
    /\ pc = "ready"
    /\ pc' = "done"
    /\ LET r == buildClaimArrays(answerHistory)
       IN  /\ answerHistory' = r.input
           /\ claimArrays' = [historyHashes |-> r.historyHashes,
                              addrs |-> r.addrs,
                              bonds |-> r.bonds,
                              answers |-> r.answers]
    /\ UNCHANGED <<statusVars, userAddress, claimable, totalClaimable, sessionVars, callVars>>

NextBuild == BuildClaimArrays

SpecBuild == InitBuild /\ [][NextBuild]_vars

-----------------------------------------------------------------------------
(* Claims about computeProposalStatus, checked under SpecStatus *)

Resolved(qs) == IF qs.finalAnswer # NullValue THEN qs.finalAnswer ELSE qs.bestAnswer

\* C1: computeProposalStatus never returns executable = true, nor the label
\* "executable", for a question state whose isFinalized is false.
C1_NotFinalizedNeverExecutable ==
    (pc = "done" /\ questionState # Null /\ ~questionState.isFinalized)
        => (~status.executable /\ status.label # "executable")

\* A non-finalized yes answer whose bond, cooldown and expiration would all pass.
C1_Witness ==
    /\ pc = "done"
    /\ questionState # Null
    /\ ~questionState.isFinalized
    /\ ~questionState.isPendingArbitration
    /\ questionState.bestAnswer = ANSWER_YES
    /\ BigInt(questionState.bond) >= BigInt(moduleConfig.minimumBond)
    /\ questionState.finalizeTs > 0
    /\ now >= questionState.finalizeTs + moduleConfig.questionCooldown
    /\ moduleConfig.answerExpiration = 0
    /\ status.label = "pending"

\* C2: a known question state with isPendingArbitration = true always yields
\* label "arbitration" with executable = false.
C2_ArbitrationFirst ==
    (pc = "done" /\ questionState # Null /\ questionState.isPendingArbitration)
        => (status.label = "arbitration" /\ ~status.executable)

\* Arbitration pending on a state that is also finalized with a yes answer.
C2_Witness ==
    /\ pc = "done"
    /\ questionState # Null
    /\ questionState.isPendingArbitration
    /\ questionState.isFinalized
    /\ questionState.finalizeTs > 0
    /\ Resolved(questionState) = ANSWER_YES
    /\ status.label = "arbitration"

\* The executability condition as C3 states it.
C3_ClaimedCondition ==
    /\ questionState # Null
    /\ ~questionState.isPendingArbitration
    /\ questionState.isFinalized
    /\ Resolved(questionState) = ANSWER_YES
    /\ BigInt(questionState.bond) >= BigInt(moduleConfig.minimumBond)
    /\ now >= questionState.finalizeTs + moduleConfig.questionCooldown
    /\ (moduleConfig.answerExpiration = 0
          \/ now <= questionState.finalizeTs + moduleConfig.answerExpiration)

\* C3 as stated: executable = true exactly when the state is known, not pending
\* arbitration, finalized, resolved to yes, bond >= minimumBond,
\* now >= finalizeTs + questionCooldown and the answer has not expired.
C3_Original == pc = "done" => (status.executable <=> C3_ClaimedCondition)

\* The condition with the cooldown test applied only to a non-zero cooldown.
C3_AmendedCondition ==
    /\ questionState # Null
    /\ ~questionState.isPendingArbitration
    /\ questionState.isFinalized
    /\ Resolved(questionState) = ANSWER_YES
    /\ BigInt(questionState.bond) >= BigInt(moduleConfig.minimumBond)
    /\ (moduleConfig.questionCooldown = 0
          \/ now >= questionState.finalizeTs + moduleConfig.questionCooldown)
    /\ (moduleConfig.answerExpiration = 0
          \/ now <= questionState.finalizeTs + moduleConfig.answerExpiration)

\* C3 amended: executable = true exactly when the state is known, not pending
\* arbitration, finalized, resolved to yes, bond >= minimumBond,
\* (questionCooldown = 0 or now >= finalizeTs + questionCooldown) and
\* (answerExpiration = 0 or now <= finalizeTs + answerExpiration); the label is
\* "executable" in exactly those cases.
C3_ExecutableExactly ==
    pc = "done" =>
        /\ status.executable <=> C3_AmendedCondition
        /\ status.executable <=> (status.label = "executable")

\* Executable with a cooldown and an expiration window both in force.
C3_Witness ==
    /\ pc = "done"
    /\ status.executable
    /\ moduleConfig.questionCooldown > 0
    /\ moduleConfig.answerExpiration > 0
    /\ BigInt(moduleConfig.minimumBond) > 0

\* C4: for a question neither pending arbitration nor finalized, "No answers
\* yet" is reported exactly when bond = 0 and the best answer is zero; a state
\* with a non-zero bond is reported as having a best answer set.
C4_NoAnswersYetExactly ==
    (pc = "done" /\ questionState # Null
       /\ ~questionState.isPendingArbitration /\ ~questionState.isFinalized)
        => /\ (status.reason = "No answers yet")
                <=> (BigInt(questionState.bond) = 0
                       /\ questionState.bestAnswer = ZeroHash)
           /\ BigInt(questionState.bond) # 0
                => status.reason \in
                     {"Best answer set, finalizes in",
                      "Best answer set, awaiting finalization call"}

-----------------------------------------------------------------------------
(* Claims about the claim eligibility engine: SpecClaim, SpecBuild *)

QsFinalized == IF questionState = Null THEN FALSE ELSE questionState.isFinalized
QsFinalizeTs == IF questionState = Null THEN 0 ELSE questionState.finalizeTs
QsArbitration ==
    IF questionState = Null THEN FALSE ELSE questionState.isPendingArbitration

\* Positions of the history whose account is the given user's.
Mine ==
    {i \in 1..Len(answerHistory) :
        userAddress # NoAddress /\ answerHistory[i].user[1] = userAddress[1]}

\* C5: for a question state with isPendingArbitration = true no entry is marked
\* claimable, for any user and history, and the estimated amount is 0.
C5_ArbitrationNothingClaimable ==
    (pc = "done" /\ QsArbitration)
        => /\ \A k \in 1..Len(claimable) : ~claimable[k].claimable
           /\ totalClaimable = 0

\* Arbitration pending on a finalized question where the user holds both an
\* outbid and the leading answer.
C5_Witness ==
    /\ pc = "done"
    /\ QsArbitration
    /\ QsFinalized
    /\ QsFinalizeTs > 0 /\ now >= QsFinalizeTs
    /\ Len(claimable) = 2
    /\ claimable[2].isLastAnswer

\* C6 as stated: the last entry of the history is never marked claimable while
\* isFinalized = false.
C6_Original ==
    (pc = "done" /\ ~QsFinalized)
        => \A k \in 1..Len(claimable) :
              claimable[k].isLastAnswer => ~claimable[k].claimable

\* C6 amended: the last entry of the history is never marked claimable while
\* finalization is not reached, i.e. isFinalized = false and
\* (finalizeTs = 0 or now < finalizeTs).
C6_LastNotClaimableBeforeFinalization ==
    (pc = "done" /\ ~QsFinalized /\ (QsFinalizeTs = 0 \/ now < QsFinalizeTs))
        => \A k \in 1..Len(claimable) :
              claimable[k].isLastAnswer => ~claimable[k].claimable

\* The user's leading answer on a question whose finalizeTs is still ahead.
C6_Witness ==
    /\ pc = "done"
    /\ ~QsFinalized /\ ~QsArbitration
    /\ QsFinalizeTs > 0 /\ now < QsFinalizeTs
    /\ Len(claimable) > 0
    /\ claimable[Len(claimable)].isLastAnswer
    /\ ~claimable[Len(claimable)].claimable

\* One entry per answer of the user, in chronological order, copied from the
\* history.
C7_EntriesOfUser ==
    /\ Len(claimable) = Cardinality(Mine)
    /\ \A k \in 1..Len(claimable) :
          LET i == claimable[k].index + 1
          IN  /\ i \in Mine
              /\ claimable[k].bond = answerHistory[i].bond
              /\ claimable[k].answer = answerHistory[i].answer
              /\ claimable[k].historyHash = answerHistory[i].historyHash
              /\ claimable[k].user = answerHistory[i].user
              /\ claimable[k].isLastAnswer <=> (i = Len(answerHistory))
    /\ \A k, l \in 1..Len(claimable) :
          k < l => claimable[k].index < claimable[l].index

\* C7 as stated: one entry per answer of the user in chronological order, and,
\* when not pending arbitration, an entry is claimable exactly when
\* isFinalized or now >= finalizeTs.
C7_Original ==
    (pc = "done" /\ questionState # Null) =>
        /\ C7_EntriesOfUser
        /\ ~QsArbitration =>
              \A k \in 1..Len(claimable) :
                 claimable[k].claimable <=> (QsFinalized \/ now >= QsFinalizeTs)

\* C7 amended: one entry per answer of the user in chronological order, and,
\* when not pending arbitration, an entry (outbid or leading) is claimable
\* exactly when isFinalized or (finalizeTs > 0 and now >= finalizeTs).
C7_ClaimableExactly ==
    pc = "done" =>
        /\ C7_EntriesOfUser
        /\ ~QsArbitration =>
              \A k \in 1..Len(claimable) :
                 claimable[k].claimable
                    <=> (QsFinalized \/ (QsFinalizeTs > 0 /\ now >= QsFinalizeTs))

\* The scenario [(A, ...), (B, ...)], finalized: A's outbid entry is claimable.
C7_Witness ==
    /\ pc = "done"
    /\ Len(answerHistory) = 2
    /\ answerHistory[1].user = <<"A", 1>>
    /\ answerHistory[2].user = <<"B", 1>>
    /\ QsFinalized /\ ~QsArbitration
    /\ userAddress = <<"A", 1>>
    /\ Len(claimable) = 1
    /\ claimable[1].claimable
    /\ claimable[1].reason = "Outbid - claimable (finalized)"

\* C8: buildClaimArrays returns four arrays of the history's length n, position
\* i of each holding the field of the entry at chronological position n-1-i,
\* and leaves the input history as it was.
C8_ExactReversal ==
    [][pc' = "done" /\ pc = "ready" /\ claimArrays' # NotCalled =>
        LET n == Len(answerHistory)
        IN  /\ answerHistory' = answerHistory
            /\ Len(claimArrays'.historyHashes) = n
            /\ Len(claimArrays'.addrs) = n
            /\ Len(claimArrays'.bonds) = n
            /\ Len(claimArrays'.answers) = n
            /\ \A i \in 1..n :
                  /\ claimArrays'.historyHashes[i] = answerHistory[n + 1 - i].historyHash
                  /\ claimArrays'.addrs[i] = answerHistory[n + 1 - i].user
                  /\ toString(claimArrays'.bonds[i]) = answerHistory[n + 1 - i].bond
                  /\ claimArrays'.answers[i] = answerHistory[n + 1 - i].answer]_vars

\* Arrays built from a history of two entries that differ in every field.
C8_Witness ==
    /\ pc = "done"
    /\ claimArrays # NotCalled
    /\ Len(answerHistory) = 2
    /\ answerHistory[1].user # answerHistory[2].user
    /\ answerHistory[1].bond # answerHistory[2].bond
    /\ answerHistory[1].answer # answerHistory[2].answer
    /\ answerHistory[1].historyHash # answerHistory[2].historyHash
    /\ claimArrays.addrs[1] = answerHistory[2].user

=============================================================================
